---- MODULE Spec2Model ----
(***************************************************************************)
(* Model of the Modus logic core: IR terms and literals (logic.rs), the    *)
(* builtin dispatcher (builtin.rs), the SLD engine and answer extraction   *)
(* (sld.rs).  Rust indices (literal ids, rule ids, body indices) are kept  *)
(* 0-based as in the source; TLA+ sequences are 1-based, so accesses add 1.*)
(* String constants are sequences of one-character strings, so that        *)
(* concatenation, strip_prefix and strip_suffix are computed, not assumed. *)
(***************************************************************************)
EXTENDS Integers, Sequences, FiniteSets, TLC

VARIABLES
    pc,          \* "loaded", "solved", "extracted", "proved" for an engine run; "lab", "called" for a library
                 \* call; "threads" while threads call rename() and aux() concurrently
    rules,       \* the program handed to sld (Vec<Clause<IRTerm>>)
    goal,        \* the goal handed to sld (Vec<Literal>)
    maxdepth,    \* the depth bound handed to sld
    hashSeed,    \* stands for the iteration order of the HashSets and HashMaps of one run
    counter,     \* logic::AVAILABLE_VARIABLE_INDEX
    result,      \* what sld returned (or that it aborted)
    answers,     \* what solutions(tree) returned
    proofList,   \* what proofs(tree, rules, goal) returned (or that it aborted)
    lab          \* record of the last stand-alone library call (unify, rename, select_builtin)

vars == <<pc, rules, goal, maxdepth, hashSeed, counter, result, answers, proofList, lab>>

-----------------------------------------------------------------------------
(* Bounds of the model *)

MaxDepth == 4
MaxRules == 3
NumThreads == 2
MaxCalls == 3

-----------------------------------------------------------------------------
(* logic.rs: terms, literals, clauses *)

\* AtomicU32 wraps on overflow; the width is scaled down so that TLC can reach the wrap.
CounterBits == 16
CounterMod == 2 ^ CounterBits

\* the longest goal select is called on by itself
MaxGoalLen == 3

\* the longest string of a and b the splitting program is tried on exhaustively
MaxSplitLen == 4

Constant(s) == [k |-> "C", s |-> s, id |-> 0, in |-> <<>>]
UserVariable(s) == [k |-> "U", s |-> s, id |-> 0, in |-> <<>>]
AuxiliaryVariable(i) == [k |-> "A", s |-> <<>>, id |-> i, in |-> <<>>]
RenamedVariable(i, t) == [k |-> "R", s |-> <<>>, id |-> i, in |-> <<t>>]

None == <<>>
Some(x) == <<x>>

SpannedPosition(offset, length) == [offset |-> offset, length |-> length]

Literal(position, predicate, args) ==
    [position |-> position, predicate |-> predicate, args |-> args]

Clause(head, body) == [head |-> head, body |-> body]

Range(f) == {f[x] : x \in DOMAIN f}

is_ground_term(t) == t.k = "C"

term_variables(t) == IF t.k = "C" THEN {} ELSE {t}

literal_variables(l) == UNION {term_variables(l.args[i]) : i \in DOMAIN l.args}

clause_variables(c) ==
    UNION {literal_variables(c.body[i]) : i \in DOMAIN c.body} \cup literal_variables(c.head)

is_ground_literal(l) == literal_variables(l) = {}

signature(l) == <<l.predicate, Len(l.args)>>

\* mutant: the index is not taken from the counter
rename_with_constant_index(t, index) == IF t.k = "C" THEN t ELSE RenamedVariable(0, t)

\* IRTerm::rename with the index fetch_add handed out
rename(t, index) == IF t.k = "C" THEN t ELSE RenamedVariable(index, t)

\* fetch_add(1): the value left in the counter
fetch_add(c) == (c + 1) % CounterMod

-----------------------------------------------------------------------------
(* unification.rs (not in the source tree): substitutions, unify, rename *)

EmptySubstitution == <<>>

substitute_term(t, s) == IF t \in DOMAIN s THEN s[t] ELSE t

substitute_literal(l, s) ==
    [l EXCEPT !.args = [i \in DOMAIN l.args |-> substitute_term(l.args[i], s)]]

substitute_goal(g, s) == [i \in DOMAIN g |-> substitute_literal(g[i], s)]

substitute_clause(c, s) ==
    Clause(substitute_literal(c.head, s), substitute_goal(c.body, s))

compose_no_extend(l, r) == [t \in DOMAIN l |-> substitute_term(l[t], r)]

compose_extend(l, r) ==
    [t \in DOMAIN l \cup DOMAIN r |->
        IF t \in DOMAIN l THEN substitute_term(l[t], r) ELSE r[t]]

RECURSIVE unify_arglist(_, _, _, _)
unify_arglist(current, other, i, s) ==
    IF i > Len(current) THEN [ok |-> TRUE, mgu |-> s]
    ELSE LET x == substitute_term(current[i], s)
             y == substitute_term(other[i], s)
         IN  IF x = y THEN unify_arglist(current, other, i + 1, s)
             ELSE IF x.k = "C" /\ y.k = "C" THEN [ok |-> FALSE, mgu |-> EmptySubstitution]
             ELSE IF x.k # "C"
                  THEN unify_arglist(current, other, i + 1, compose_extend(s, x :> y))
                  ELSE unify_arglist(current, other, i + 1, compose_extend(s, y :> x))

\* a.unify(b)
unify(a, b) ==
    IF signature(a) # signature(b) THEN [ok |-> FALSE, mgu |-> EmptySubstitution]
    ELSE unify_arglist(a.args, b.args, 1, EmptySubstitution)

Reverse(s) == [i \in 1..Len(s) |-> s[Len(s) + 1 - i]]

RECURSIVE flatten_args(_)
flatten_args(lits) ==
    IF lits = <<>> THEN <<>> ELSE Head(lits).args \o flatten_args(Tail(lits))

RECURSIVE distinct_variables(_, _)
distinct_variables(ts, acc) ==
    IF ts = <<>> THEN acc
    ELSE LET t == Head(ts)
         IN  distinct_variables(Tail(ts),
                 IF t.k = "C" \/ t \in Range(acc) THEN acc ELSE Append(acc, t))

\* the order in which the HashSet of a clause's variables is iterated: one of two
\* orders, picked by the seed
variables_in_order(c, seed) ==
    LET vs == distinct_variables(flatten_args(c.body) \o c.head.args, <<>>)
    IN  IF seed = 0 THEN vs ELSE Reverse(vs)

RECURSIVE rename_all(_, _, _)
rename_all(vs, ctr, s) ==
    IF vs = <<>> THEN [renaming |-> s, counter |-> ctr]
    ELSE rename_all(Tail(vs), fetch_add(ctr), s @@ (Head(vs) :> rename(Head(vs), ctr)))

\* Clause::rename_with_sub: every variable of the clause gets one fresh copy
rename_with_sub(c, ctr, seed) ==
    LET r == rename_all(variables_in_order(c, seed), ctr, EmptySubstitution)
    IN  [clause |-> substitute_clause(c, r.renaming),
         renaming |-> r.renaming,
         counter |-> r.counter]

-----------------------------------------------------------------------------
(* builtin.rs *)

StringConcat1 == [name |-> "string_concat", arg_groundness |-> <<FALSE, FALSE, TRUE>>, mode |-> "StringConcat1"]
StringConcat2 == [name |-> "string_concat", arg_groundness |-> <<TRUE, FALSE, FALSE>>, mode |-> "StringConcat2"]
StringConcat3 == [name |-> "string_concat", arg_groundness |-> <<FALSE, TRUE, FALSE>>, mode |-> "StringConcat3"]
Run == [name |-> "run", arg_groundness |-> <<FALSE>>, mode |-> "Run"]
From == [name |-> "from", arg_groundness |-> <<FALSE>>, mode |-> "From"]

\* the builtins in the order select_builtins! tries them
Builtins == <<StringConcat1, StringConcat2, StringConcat3, Run, From>>

Min(a, b) == IF a < b THEN a ELSE b

\* mutant: the groundness mask is not looked at
builtin_select_by_name(b, lit) == lit.predicate = b.name

\* BuiltinPredicate::select: the name matches and no variable sits where the mask is false
\* (zip stops at the shorter of the two sequences)
builtin_select(b, lit) ==
    /\ lit.predicate = b.name
    /\ \A i \in 1..Min(Len(lit.args), Len(b.arg_groundness)) :
           ~(lit.args[i].k # "C" /\ ~b.arg_groundness[i])

as_str_const(t) == IF t.k = "C" THEN Some(t.s) ELSE None

\* mutant: the prefix is cut off without being compared
strip_prefix_unchecked(c, a) ==
    IF Len(a) <= Len(c) THEN Some(SubSeq(c, Len(a) + 1, Len(c))) ELSE None

strip_prefix(c, a) ==
    IF Len(a) <= Len(c) /\ SubSeq(c, 1, Len(a)) = a
    THEN Some(SubSeq(c, Len(a) + 1, Len(c))) ELSE None

\* mutant: the suffix is looked for at the front
strip_suffix_at_front(c, b) ==
    IF Len(b) <= Len(c) /\ SubSeq(c, 1, Len(b)) = b
    THEN Some(SubSeq(c, Len(b) + 1, Len(c))) ELSE None

strip_suffix(c, b) ==
    IF Len(b) <= Len(c) /\ SubSeq(c, Len(c) - Len(b) + 1, Len(c)) = b
    THEN Some(SubSeq(c, 1, Len(c) - Len(b))) ELSE None

string_concat_result(a, b, c) ==
    Some(Literal(None, "string_concat", <<Constant(a), Constant(b), Constant(c)>>))

\* BuiltinPredicate::apply of each mode; None when the mode gives no head literal
builtin_apply(b, lit) ==
    IF b.mode = "StringConcat1" THEN
        LET a == as_str_const(lit.args[1])
            bb == as_str_const(lit.args[2])
        IN  IF a = None \/ bb = None THEN None
            ELSE string_concat_result(a[1], bb[1], a[1] \o bb[1])
    ELSE IF b.mode = "StringConcat2" THEN
        LET bb == as_str_const(lit.args[2])
            c == as_str_const(lit.args[3])
        IN  IF bb = None \/ c = None THEN None
            ELSE LET a == strip_suffix(c[1], bb[1])
                 IN  IF a = None THEN None ELSE string_concat_result(a[1], bb[1], c[1])
    ELSE IF b.mode = "StringConcat3" THEN
        LET a == as_str_const(lit.args[1])
            c == as_str_const(lit.args[3])
        IN  IF a = None \/ c = None THEN None
            ELSE LET bb == strip_prefix(c[1], a[1])
                 IN  IF bb = None THEN None ELSE string_concat_result(a[1], bb[1], c[1])
    ELSE \* Run, From: valid as long as the argument is a constant
        IF lit.args[1].k = "C" THEN Some(lit) ELSE None

\* select_builtin as builtin.rs has it: the first builtin whose select passes, else None
select_builtin(lit) ==
    IF \E i \in DOMAIN Builtins : builtin_select(Builtins[i], lit)
    THEN Some(Builtins[CHOOSE i \in DOMAIN Builtins :
                  /\ builtin_select(Builtins[i], lit)
                  /\ \A j \in 1..(i - 1) : ~builtin_select(Builtins[j], lit)])
    ELSE None

\* select_builtin as sld.rs calls it: a pair (SelectBuiltinResult, Option<builtin>)
select_builtin_res(lit) ==
    LET found == select_builtin(lit)
    IN  IF found # None THEN <<"Match", found>>
        ELSE IF \E i \in DOMAIN Builtins : Builtins[i].name = lit.predicate
             THEN <<"GroundnessMismatch", None>>
             ELSE <<"NoMatch", None>>

-----------------------------------------------------------------------------
(* wellformed.rs (not in the source tree) *)

\* per signature, which argument positions may hold a variable when the literal is
\* selected: those whose head argument is a constant or is bound by the body
check_grounded_variables(rs) ==
    LET sigs == {signature(rs[i].head) : i \in DOMAIN rs}
        first(sg) == CHOOSE i \in DOMAIN rs :
                        /\ signature(rs[i].head) = sg
                        /\ \A j \in 1..(i - 1) : signature(rs[j].head) # sg
        infer(c) == [j \in DOMAIN c.head.args |->
                        \/ c.head.args[j].k = "C"
                        \/ c.head.args[j] \in UNION {literal_variables(c.body[b]) : b \in DOMAIN c.body}]
    IN  [sg \in sigs |-> infer(rs[first(sg)])]

\* the clauses of one signature agree on the groundness of every position; sld unwraps
\* the result of the analysis, so programs it rejects never reach the engine
groundness_consistent(rs) ==
    \A i \in DOMAIN rs :
        check_grounded_variables(<<rs[i]>>)[signature(rs[i].head)]
            = check_grounded_variables(rs)[signature(rs[i].head)]

-----------------------------------------------------------------------------
(* sld.rs: the SLD engine *)

ClauseIdRule(rid) == [tag |-> "Rule", rid |-> rid, head |-> None]
ClauseIdQuery == [tag |-> "Query", rid |-> 0, head |-> None]
ClauseIdBuiltin(lit) == [tag |-> "Builtin", rid |-> 0, head |-> Some(lit)]

LiteralOrigin(clause, body_index) == [clause |-> clause, body_index |-> body_index]

LiteralWithHistory(literal, introduction, origin) ==
    [literal |-> literal, introduction |-> introduction, origin |-> origin]

Tree(g, level, resolvents) == [goal |-> g, level |-> level, resolvents |-> resolvents]

\* one entry of Tree.resolvents: key (lid, cid), value (mgu, renaming, subtree)
Resolvent(lid, cid, mgu, renaming, tree) ==
    [lid |-> lid, cid |-> cid, mgu |-> mgu, renaming |-> renaming, tree |-> tree]

\* impl Substitute for GoalWithHistory
substitute_history(g, s) ==
    [i \in DOMAIN g |->
        LiteralWithHistory(substitute_literal(g[i].literal, s), g[i].introduction, g[i].origin)]

unknown_predicate(literal) ==
    [message |-> "unknown predicate",
     labels |-> <<[start |-> literal.position[1].offset,
                   end |-> literal.position[1].offset + literal.position[1].length]>>]

\* sld::select from literal id on: Ok(Some((id, lit))), Ok(None), Err(diagnostic),
\* or the abort of position.unwrap() on a literal that has no position
RECURSIVE select_from(_, _, _)

\* mutant: a literal with a groundness mismatch ends the scan instead of being skipped
select_from_stopping_at_mismatch(g, grounded, id) ==
    IF id >= Len(g) THEN [tag |-> "None"]
    ELSE LET lit == g[id + 1]
             literal == lit.literal
             select_builtin_result == select_builtin_res(literal)
         IN  IF select_builtin_result[1] = "Match" THEN [tag |-> "Some", lid |-> id, l |-> lit]
             ELSE IF signature(literal) \in DOMAIN grounded THEN
                 LET lit_grounded == grounded[signature(literal)]
                 IN  IF \A i \in DOMAIN literal.args :
                            lit_grounded[i] \/ literal.args[i].k = "C"
                     THEN [tag |-> "Some", lid |-> id, l |-> lit]
                     ELSE [tag |-> "None"]
             ELSE IF select_builtin_result[1] = "GroundnessMismatch" THEN [tag |-> "None"]
             ELSE IF literal.position = None THEN [tag |-> "Panic"]
             ELSE [tag |-> "Err", diagnostic |-> unknown_predicate(literal)]

select_from(g, grounded, id) ==
    IF id >= Len(g) THEN [tag |-> "None"]
    ELSE LET lit == g[id + 1]
             literal == lit.literal
             select_builtin_result == select_builtin_res(literal)
         IN  IF select_builtin_result[1] = "Match" THEN [tag |-> "Some", lid |-> id, l |-> lit]
             ELSE IF signature(literal) \in DOMAIN grounded THEN
                 LET lit_grounded == grounded[signature(literal)]
                 IN  IF \A i \in DOMAIN literal.args :
                            lit_grounded[i] \/ literal.args[i].k = "C"
                     THEN [tag |-> "Some", lid |-> id, l |-> lit]
                     ELSE select_from(g, grounded, id + 1)
             ELSE IF select_builtin_result[1] = "GroundnessMismatch"
                  THEN select_from(g, grounded, id + 1)
             ELSE IF literal.position = None THEN [tag |-> "Panic"]
             ELSE [tag |-> "Err", diagnostic |-> unknown_predicate(literal)]

select(g, grounded) == select_from(g, grounded, 0)

remove(g, lid) == SubSeq(g, 1, lid) \o SubSeq(g, lid + 2, Len(g))

\* mutant: the body literals are tagged with the level of the parent goal
resolve_tagging_parent_level(lid, rid, g, mgu, rule, level) ==
    LET extended == remove(g, lid) \o
            [id \in DOMAIN rule.body |->
                LiteralWithHistory(rule.body[id], level - 1, LiteralOrigin(rid, id - 1))]
    IN  substitute_history(extended, mgu)

\* sld::resolve
resolve(lid, rid, g, mgu, rule, level) ==
    LET extended == remove(g, lid) \o
            [id \in DOMAIN rule.body |->
                LiteralWithHistory(rule.body[id], level, LiteralOrigin(rid, id - 1))]
    IN  substitute_history(extended, mgu)

\* the builtin resolvent of the selected literal, if any (a sequence of 0 or 1 resolvents)
builtin_resolves(lid, l, g, level) ==
    LET res == select_builtin_res(l.literal)
        pred == IF res[1] = "Match" THEN res[2] ELSE None
        unify_cand == IF pred = None THEN None ELSE builtin_apply(pred[1], l.literal)
    IN  IF unify_cand = None THEN <<>>
        ELSE LET u == unify(unify_cand[1], l.literal)
             IN  IF ~u.ok THEN <<>>
                 ELSE <<[rid |-> ClauseIdBuiltin(unify_cand[1]),
                         mgu |-> u.mgu,
                         renaming |-> EmptySubstitution,
                         resolvent |-> resolve(lid, ClauseIdBuiltin(unify_cand[1]), g, u.mgu,
                                               Clause(unify_cand[1], <<>>), level + 1)]>>

\* mutant: the head of the clause as written, not of its renamed copy, is unified
user_rule_resolves_unrenamed(rs, rid, lid, l, g, level, ctr, seed) ==
    LET rn == rename_with_sub(rs[rid + 1], ctr, seed)
        u == unify(rs[rid + 1].head, l.literal)
    IN  [counter |-> rn.counter,
         found |-> IF ~u.ok THEN <<>>
                   ELSE <<[rid |-> ClauseIdRule(rid),
                           mgu |-> u.mgu,
                           renaming |-> rn.renaming,
                           resolvent |-> resolve(lid, ClauseIdRule(rid), g, u.mgu,
                                                 rn.clause, level + 1)]>>]

\* one step of user_rules_resolves for rule id rid (0-based): the clause is renamed
\* (advancing the counter) and unified with the selected literal
user_rule_resolves(rs, rid, lid, l, g, level, ctr, seed) ==
    LET rn == rename_with_sub(rs[rid + 1], ctr, seed)
        u == unify(rn.clause.head, l.literal)
    IN  [counter |-> rn.counter,
         found |-> IF ~u.ok THEN <<>>
                   ELSE <<[rid |-> ClauseIdRule(rid),
                           mgu |-> u.mgu,
                           renaming |-> rn.renaming,
                           resolvent |-> resolve(lid, ClauseIdRule(rid), g, u.mgu,
                                                 rn.clause, level + 1)]>>]

\* mutant: the map keyed by the selected literal alone, so a later clause replaces
\* the subtree of an earlier one
insert_keyed_by_lid(resolvents, e) == <<e>>

\* HashMap::insert on the resolvents map, keyed by (lid, cid)
insert(resolvents, e) ==
    IF \E i \in DOMAIN resolvents : resolvents[i].lid = e.lid /\ resolvents[i].cid = e.cid
    THEN [i \in DOMAIN resolvents |->
             IF resolvents[i].lid = e.lid /\ resolvents[i].cid = e.cid THEN e ELSE resolvents[i]]
    ELSE Append(resolvents, e)

\* the counter as the iterator of user_rules_resolves reaches rule id upto, having
\* started at rule id rid with the counter at ctr: every rule in between that passed
\* the signature filter was renamed
counter_before(rs, rid, upto, l, ctr, seed) ==
    LET renamed == {q \in rid..(upto - 1) :
                       signature(rs[q + 1].head) = signature(l.literal)}
        fresh == UNION {{<<q, v>> : v \in Range(variables_in_order(rs[q + 1], seed))} :
                        q \in renamed}
    IN  (ctr + Cardinality(fresh)) % CounterMod

\* the rule ids, from rid on, that the filter / map / filter_map chain of
\* user_rules_resolves lets through: the signature matches and the renamed head
\* unifies with the selected literal
resolving(rs, rid, lid, g, level, ctr, seed) ==
    {q \in rid..(Len(rs) - 1) :
        /\ signature(rs[q + 1].head) = signature(g[lid + 1].literal)
        /\ user_rule_resolves(rs, q, lid, g[lid + 1], g, level,
                              counter_before(rs, rid, q, g[lid + 1], ctr, seed),
                              seed).found # <<>>}

\* mutant: the iterator ends at the first rule that does not resolve (take_while for filter)
next_resolving_until_mismatch(rs, rid, lid, g, level, ctr, seed) ==
    IF rid \in resolving(rs, rid, lid, g, level, ctr, seed) THEN rid ELSE Len(rs)

\* the next item the iterator yields, Len(rs) when it is exhausted
next_resolving(rs, rid, lid, g, level, ctr, seed) ==
    LET qs == resolving(rs, rid, lid, g, level, ctr, seed)
    IN  IF qs = {} THEN Len(rs) ELSE CHOOSE q \in qs : \A o \in qs : q <= o

\* what the for loop gets from user_rules_resolves when it asks for the next item from
\* rule id rid on: the rule id (Len(rs) when the iterator is exhausted), the candidate
\* and the counter after the renamings done on the way
next_item(rs, rid, lid, g, level, ctr, seed) ==
    LET next == next_resolving(rs, rid, lid, g, level, ctr, seed)
        at == counter_before(rs, rid, next, g[lid + 1], ctr, seed)
        step == user_rule_resolves(rs, next, lid, g[lid + 1], g, level, at, seed)
    IN  IF next >= Len(rs) THEN [next |-> next, counter |-> at]
        ELSE [next |-> next, cand |-> Head(step.found), counter |-> step.counter]

\* the element of a set of one element
Only(S) == CHOOSE x \in S : TRUE

RECURSIVE inner(_, _, _, _, _, _, _)
RECURSIVE explore(_, _, _, _, _, _, _, _, _, _, _)

\* mutant: an Err of a recursive call on a rule's resolvent is taken for "no proof" and
\* the loop goes on with the next clause
explore_dropping_errors(rs, g, maxd, level, grounded, lid, pending, rid, resolvents, ctr, seed) ==
    IF pending # <<>> THEN
        Only({IF maybe_tree.tag \in {"Err", "Panic"} THEN maybe_tree
              ELSE explore(rs, g, maxd, level, grounded, lid, Tail(pending), rid,
                           IF maybe_tree.tag = "Some"
                           THEN insert(resolvents,
                                    Resolvent(lid, Head(pending).rid, Head(pending).mgu,
                                              Head(pending).renaming, maybe_tree.tree))
                           ELSE resolvents,
                           maybe_tree.counter, seed) :
              maybe_tree \in {inner(rs, Head(pending).resolvent, maxd, level + 1, grounded,
                                    ctr, seed)}})
    ELSE
        Only({IF item.next >= Len(rs) THEN
                  IF resolvents = <<>> THEN [tag |-> "None", counter |-> item.counter]
                  ELSE [tag |-> "Some", tree |-> Tree(g, level, resolvents),
                        counter |-> item.counter]
              ELSE
                  Only({IF maybe_tree.tag = "Panic" THEN maybe_tree
                        ELSE explore(rs, g, maxd, level, grounded, lid, <<>>, item.next + 1,
                                     IF maybe_tree.tag = "Some"
                                     THEN insert(resolvents,
                                              Resolvent(lid, item.cand.rid, item.cand.mgu,
                                                        item.cand.renaming, maybe_tree.tree))
                                     ELSE resolvents,
                                     maybe_tree.counter, seed) :
                        maybe_tree \in {inner(rs, item.cand.resolvent, maxd, level + 1,
                                              grounded, item.counter, seed)}}) :
              item \in {next_item(rs, rid, lid, g, level, ctr, seed)}})

\* the for loop of sld::inner over builtin_resolves.chain(user_rules_resolves):
\* pending holds the builtin resolvent not yet explored, rid the next rule to try,
\* resolvents the map built so far.  An Err (or abort) of a recursive call ends the loop.
\* The value of a recursive call is bound once (maybe_tree) and used from there.
\* mutant: a node none of whose resolvents has a tree is returned all the same
explore_keeping_empty(rs, g, maxd, level, grounded, lid, pending, rid, resolvents, ctr, seed) ==
    IF pending # <<>> THEN
        Only({IF maybe_tree.tag \in {"Err", "Panic"} THEN maybe_tree
              ELSE explore(rs, g, maxd, level, grounded, lid, Tail(pending), rid,
                           IF maybe_tree.tag = "Some"
                           THEN insert(resolvents,
                                    Resolvent(lid, Head(pending).rid, Head(pending).mgu,
                                              Head(pending).renaming, maybe_tree.tree))
                           ELSE resolvents,
                           maybe_tree.counter, seed) :
              maybe_tree \in {inner(rs, Head(pending).resolvent, maxd, level + 1, grounded,
                                    ctr, seed)}})
    ELSE
        Only({IF item.next >= Len(rs) THEN
                  [tag |-> "Some", tree |-> Tree(g, level, resolvents),
                   counter |-> item.counter]
              ELSE
                  Only({IF maybe_tree.tag \in {"Err", "Panic"} THEN maybe_tree
                        ELSE explore(rs, g, maxd, level, grounded, lid, <<>>, item.next + 1,
                                     IF maybe_tree.tag = "Some"
                                     THEN insert(resolvents,
                                              Resolvent(lid, item.cand.rid, item.cand.mgu,
                                                        item.cand.renaming, maybe_tree.tree))
                                     ELSE resolvents,
                                     maybe_tree.counter, seed) :
                        maybe_tree \in {inner(rs, item.cand.resolvent, maxd, level + 1,
                                              grounded, item.counter, seed)}}) :
              item \in {next_item(rs, rid, lid, g, level, ctr, seed)}})

explore(rs, g, maxd, level, grounded, lid, pending, rid, resolvents, ctr, seed) ==
    IF pending # <<>> THEN
        Only({IF maybe_tree.tag \in {"Err", "Panic"} THEN maybe_tree
              ELSE explore(rs, g, maxd, level, grounded, lid, Tail(pending), rid,
                           IF maybe_tree.tag = "Some"
                           THEN insert(resolvents,
                                    Resolvent(lid, Head(pending).rid, Head(pending).mgu,
                                              Head(pending).renaming, maybe_tree.tree))
                           ELSE resolvents,
                           maybe_tree.counter, seed) :
              maybe_tree \in {inner(rs, Head(pending).resolvent, maxd, level + 1, grounded,
                                    ctr, seed)}})
    ELSE
        Only({IF item.next >= Len(rs) THEN
                  IF resolvents = <<>> THEN [tag |-> "None", counter |-> item.counter]
                  ELSE [tag |-> "Some", tree |-> Tree(g, level, resolvents),
                        counter |-> item.counter]
              ELSE
                  Only({IF maybe_tree.tag \in {"Err", "Panic"} THEN maybe_tree
                        ELSE explore(rs, g, maxd, level, grounded, lid, <<>>, item.next + 1,
                                     IF maybe_tree.tag = "Some"
                                     THEN insert(resolvents,
                                              Resolvent(lid, item.cand.rid, item.cand.mgu,
                                                        item.cand.renaming, maybe_tree.tree))
                                     ELSE resolvents,
                                     maybe_tree.counter, seed) :
                        maybe_tree \in {inner(rs, item.cand.resolvent, maxd, level + 1,
                                              grounded, item.counter, seed)}}) :
              item \in {next_item(rs, rid, lid, g, level, ctr, seed)}})

\* mutant: the depth bound is tested before the empty goal
inner_depth_bound_first(rs, g, maxd, level, grounded, ctr, seed) ==
    IF level >= maxd THEN [tag |-> "None", counter |-> ctr]
    ELSE IF g = <<>> THEN [tag |-> "Some", tree |-> Tree(g, level, <<>>), counter |-> ctr]
    ELSE LET selected == select(g, grounded)
         IN  IF selected.tag = "Panic" THEN [tag |-> "Panic", counter |-> ctr]
             ELSE IF selected.tag = "Err"
                  THEN [tag |-> "Err", diagnostic |-> selected.diagnostic, counter |-> ctr]
             ELSE IF selected.tag = "None" THEN [tag |-> "None", counter |-> ctr]
             ELSE explore(rs, g, maxd, level, grounded, selected.lid,
                          builtin_resolves(selected.lid, selected.l, g, level),
                          0, <<>>, ctr, seed)

\* sld::inner, with the fresh-variable counter threaded through
inner(rs, g, maxd, level, grounded, ctr, seed) ==
    IF g = <<>> THEN [tag |-> "Some", tree |-> Tree(g, level, <<>>), counter |-> ctr]
    ELSE IF level >= maxd THEN [tag |-> "None", counter |-> ctr]
    ELSE LET selected == select(g, grounded)
         IN  IF selected.tag = "Panic" THEN [tag |-> "Panic", counter |-> ctr]
             ELSE IF selected.tag = "Err"
                  THEN [tag |-> "Err", diagnostic |-> selected.diagnostic, counter |-> ctr]
             ELSE IF selected.tag = "None" THEN [tag |-> "None", counter |-> ctr]
             ELSE explore(rs, g, maxd, level, grounded, selected.lid,
                          builtin_resolves(selected.lid, selected.l, g, level),
                          0, <<>>, ctr, seed)

\* mutant: the goal literals are numbered from one
goal_with_history_from_one(g) ==
    [id \in DOMAIN g |-> LiteralWithHistory(g[id], 0, LiteralOrigin(ClauseIdQuery, id))]

\* the goal wrapped with introduction 0 and origin (Query, i)
goal_with_history(g) ==
    [id \in DOMAIN g |-> LiteralWithHistory(g[id], 0, LiteralOrigin(ClauseIdQuery, id - 1))]

sld(rs, g, maxd, ctr, seed) ==
    inner(rs, goal_with_history(g), maxd, 0, check_grounded_variables(rs), ctr, seed)

-----------------------------------------------------------------------------
(* sld.rs: answer extraction *)

RECURSIVE solutions_inner(_)

\* mutant: the substitutions of a path are composed with compose_no_extend, so the
\* bindings made below the first step are kept only where the first mgu mentions them
solutions_inner_no_extend(tree) ==
    IF tree.goal = <<>> THEN {EmptySubstitution}
    ELSE UNION {{compose_no_extend(tree.resolvents[i].mgu, s) :
                    s \in solutions_inner(tree.resolvents[i].tree)} :
                i \in DOMAIN tree.resolvents}

solutions_inner(tree) ==
    IF tree.goal = <<>> THEN {EmptySubstitution}
    ELSE UNION {{compose_extend(tree.resolvents[i].mgu, s) :
                    s \in solutions_inner(tree.resolvents[i].tree)} :
                i \in DOMAIN tree.resolvents}

\* mutant: the mgu of the first step alone, the subtree's substitutions not composed in
solutions_first_step_only(tree) ==
    IF tree.goal = <<>> THEN {<<>>}
    ELSE {[i \in DOMAIN tree.goal |->
              substitute_literal(tree.goal[i].literal, tree.resolvents[r].mgu)] :
          r \in DOMAIN tree.resolvents}

solutions(tree) ==
    {[i \in DOMAIN tree.goal |-> substitute_literal(tree.goal[i].literal, s)] :
        s \in solutions_inner(tree)}

-----------------------------------------------------------------------------
(* sld.rs: proof extraction *)

PathNode(resolvent, applied, selected, renaming) ==
    [resolvent |-> resolvent, applied |-> applied, selected |-> selected, renaming |-> renaming]

Proof(clause, valuation, children) ==
    [ok |-> \A i \in DOMAIN children : children[i].ok,
     clause |-> clause, valuation |-> valuation, children |-> children]

\* a proof whose reconstruction aborted (a failed assert, unwrap or index)
ProofPanic == [ok |-> FALSE, clause |-> ClauseIdQuery, valuation |-> EmptySubstitution,
               children |-> <<>>]

\* the order in which a HashMap of resolvents is iterated: one of two orders
hash_order(entries, seed) == IF seed = 0 THEN entries ELSE Reverse(entries)

RECURSIVE concat_all(_)
concat_all(seqs) == IF seqs = <<>> THEN <<>> ELSE Head(seqs) \o concat_all(Tail(seqs))

RECURSIVE flatten_compose(_, _, _, _, _, _)

\* mutant: every path node records the first literal as the selected one
flatten_compose_selecting_first(lid, cid, mgu, renaming, tree, seed) ==
    LET node == PathNode(tree.goal, cid, 0, renaming)
    IN  IF tree.goal = <<>> THEN <<[nodes |-> <<node>>, mgu |-> mgu]>>
        ELSE LET entries == hash_order(tree.resolvents, seed)
                 below(e) == flatten_compose(e.lid, e.cid, e.mgu, e.renaming, e.tree, seed)
                 extend(sub) == [nodes |-> <<node>> \o sub.nodes,
                                 mgu |-> compose_extend(mgu, sub.mgu)]
             IN  concat_all([i \in DOMAIN entries |->
                     LET paths == below(entries[i])
                     IN  [k \in DOMAIN paths |-> extend(paths[k])]])

flatten_compose(lid, cid, mgu, renaming, tree, seed) ==
    LET node == PathNode(tree.goal, cid, lid, renaming)
    IN  IF tree.goal = <<>> THEN <<[nodes |-> <<node>>, mgu |-> mgu]>>
        ELSE LET entries == hash_order(tree.resolvents, seed)
                 below(e) == flatten_compose(e.lid, e.cid, e.mgu, e.renaming, e.tree, seed)
                 extend(sub) == [nodes |-> <<node>> \o sub.nodes,
                                 mgu |-> compose_extend(mgu, sub.mgu)]
             IN  concat_all([i \in DOMAIN entries |->
                     LET paths == below(entries[i])
                     IN  [k \in DOMAIN paths |-> extend(paths[k])]])

Max(S) == CHOOSE x \in S : \A y \in S : y <= x

\* reconstruct the proof for a given tree level (path steps are 0-based as in the source)
RECURSIVE proof_for_level(_, _, _, _)

\* mutant: the valuation is composed with compose_extend, which also keeps the bindings
\* of the mgu that the renaming does not mention
proof_for_level_extending(path, mgu, rs, level) ==
    LET steps == {l \in 0..(Len(path) - 1) : path[l + 1].resolvent # <<>>}
        in_range(l) == /\ l + 2 <= Len(path)
                       /\ path[l + 2].selected + 1 <= Len(path[l + 1].resolvent)
        resolved_child(l) == path[l + 1].resolvent[path[l + 2].selected + 1]
        hits == {l \in steps : resolved_child(l).introduction = level}
        keys == {resolved_child(l).origin.body_index : l \in hits}
        sublevels_map == [k \in keys |->
                            Max({l + 1 : l \in {h \in hits : resolved_child(h).origin.body_index = k}})]
        children_length == Cardinality(keys)
        applied == path[level + 1].applied
        expected == IF applied.tag = "Query" THEN Len(path[1].resolvent)
                    ELSE IF applied.tag = "Rule" THEN Len(rs[applied.rid + 1].body)
                    ELSE 0
    IN  IF \E l \in steps : ~in_range(l) THEN ProofPanic
        ELSE IF level + 1 > Len(path) THEN ProofPanic
        ELSE IF children_length # expected THEN ProofPanic
        ELSE IF \E k \in keys : ~(k < children_length) THEN ProofPanic
        ELSE Proof(applied,
                   compose_extend(path[level + 1].renaming, mgu),
                   [i \in 1..children_length |->
                       proof_for_level(path, mgu, rs, sublevels_map[i - 1])])

\* mutant: the children are listed in the order their literals were selected
proof_for_level_in_selection_order(path, mgu, rs, level) ==
    LET steps == {l \in 0..(Len(path) - 1) : path[l + 1].resolvent # <<>>}
        in_range(l) == /\ l + 2 <= Len(path)
                       /\ path[l + 2].selected + 1 <= Len(path[l + 1].resolvent)
        resolved_child(l) == path[l + 1].resolvent[path[l + 2].selected + 1]
        hits == {l \in steps : resolved_child(l).introduction = level}
        keys == {resolved_child(l).origin.body_index : l \in hits}
        sublevels_map == [k \in keys |->
                            Max({l + 1 : l \in {h \in hits : resolved_child(h).origin.body_index = k}})]
        children_length == Cardinality(keys)
        applied == path[level + 1].applied
        expected == IF applied.tag = "Query" THEN Len(path[1].resolvent)
                    ELSE IF applied.tag = "Rule" THEN Len(rs[applied.rid + 1].body)
                    ELSE 0
    IN  IF \E l \in steps : ~in_range(l) THEN ProofPanic
        ELSE IF level + 1 > Len(path) THEN ProofPanic
        ELSE IF children_length # expected THEN ProofPanic
        ELSE IF \E k \in keys : ~(k < children_length) THEN ProofPanic
        ELSE Proof(applied,
                   compose_no_extend(path[level + 1].renaming, mgu),
                   [i \in 1..children_length |->
                       proof_for_level(path, mgu, rs,
                           CHOOSE t \in {sublevels_map[k] : k \in keys} :
                               Cardinality({u \in {sublevels_map[k] : k \in keys} : u <= t}) = i)])

proof_for_level(path, mgu, rs, level) ==
    LET steps == {l \in 0..(Len(path) - 1) : path[l + 1].resolvent # <<>>}
        in_range(l) == /\ l + 2 <= Len(path)
                       /\ path[l + 2].selected + 1 <= Len(path[l + 1].resolvent)
        resolved_child(l) == path[l + 1].resolvent[path[l + 2].selected + 1]
        hits == {l \in steps : resolved_child(l).introduction = level}
        keys == {resolved_child(l).origin.body_index : l \in hits}
        sublevels_map == [k \in keys |->
                            Max({l + 1 : l \in {h \in hits : resolved_child(h).origin.body_index = k}})]
        children_length == Cardinality(keys)
        applied == path[level + 1].applied
        expected == IF applied.tag = "Query" THEN Len(path[1].resolvent)
                    ELSE IF applied.tag = "Rule" THEN Len(rs[applied.rid + 1].body)
                    ELSE 0
    IN  IF \E l \in steps : ~in_range(l) THEN ProofPanic
        ELSE IF level + 1 > Len(path) THEN ProofPanic
        ELSE IF children_length # expected THEN ProofPanic
        ELSE IF \E k \in keys : ~(k < children_length) THEN ProofPanic
        ELSE Proof(applied,
                   compose_no_extend(path[level + 1].renaming, mgu),
                   [i \in 1..children_length |->
                       proof_for_level(path, mgu, rs, sublevels_map[i - 1])])

\* the stable de-duplication loop at the end of proofs
RECURSIVE dedup_proofs(_, _, _, _)

\* mutant: a later proof of a projected goal already seen replaces the one kept for it
dedup_proofs_keeping_last(all_proofs, g, computed, kept) ==
    IF all_proofs = <<>> THEN kept
    ELSE LET p == Head(all_proofs)
             solution == substitute_goal(g, p.valuation)
         IN  IF solution \in computed
             THEN dedup_proofs(Tail(all_proofs), g, computed,
                      [i \in DOMAIN kept |->
                          IF substitute_goal(g, kept[i].valuation) = solution THEN p ELSE kept[i]])
             ELSE dedup_proofs(Tail(all_proofs), g, computed \cup {solution}, Append(kept, p))

dedup_proofs(all_proofs, g, computed, kept) ==
    IF all_proofs = <<>> THEN kept
    ELSE LET p == Head(all_proofs)
             solution == substitute_goal(g, p.valuation)
         IN  IF solution \in computed
             THEN dedup_proofs(Tail(all_proofs), g, computed, kept)
             ELSE dedup_proofs(Tail(all_proofs), g, computed \cup {solution}, Append(kept, p))

goal_variables(g) == UNION {literal_variables(g[i]) : i \in DOMAIN g}

\* mutant: the root of every path starts from an empty renaming instead of the identity
\* on the goal's variables
proofs_without_goal_renaming(tree, rs, g, seed) ==
    LET paths == flatten_compose(0, ClauseIdQuery, EmptySubstitution, EmptySubstitution, tree, seed)
        all_proofs == [i \in DOMAIN paths |-> proof_for_level(paths[i].nodes, paths[i].mgu, rs, 0)]
    IN  IF \E i \in DOMAIN all_proofs : ~all_proofs[i].ok
        THEN [ok |-> FALSE, proofs |-> <<>>]
        ELSE [ok |-> TRUE, proofs |-> dedup_proofs(all_proofs, g, {}, <<>>)]

\* sld::proofs; ok is false when the reconstruction of some path aborted
proofs(tree, rs, g, seed) ==
    LET goal_id_renaming == [v \in goal_variables(g) |-> v]
        paths == flatten_compose(0, ClauseIdQuery, EmptySubstitution, goal_id_renaming, tree, seed)
        all_proofs == [i \in DOMAIN paths |-> proof_for_level(paths[i].nodes, paths[i].mgu, rs, 0)]
    IN  IF \E i \in DOMAIN all_proofs : ~all_proofs[i].ok
        THEN [ok |-> FALSE, proofs |-> <<>>]
        ELSE [ok |-> TRUE, proofs |-> dedup_proofs(all_proofs, g, {}, <<>>)]

-----------------------------------------------------------------------------
(* translate.rs: lowering of format strings.  A format string is a sequence of  *)
(* one-character strings.                                                        *)

\* sld::Auxiliary::aux with the index fetch_add handed out
aux(index) == AuxiliaryVariable(index)

IdentifierChars == {"A", "B", "v", "w"}

\* parser::outside_format_expansion (not in the source tree): the longest prefix free of an
\* unescaped "$"; "\$" is an escaped dollar.  Gives the number of characters consumed.
RECURSIVE outside_length(_, _)
outside_length(i, n) ==
    IF n >= Len(i) THEN Len(i)
    ELSE IF i[n + 1] = "$" THEN n
    ELSE IF i[n + 1] = "\\" /\ n + 2 <= Len(i) /\ i[n + 2] = "$" THEN outside_length(i, n + 2)
    ELSE outside_length(i, n + 1)

outside_format_expansion(i) ==
    LET n == outside_length(i, 0)
    IN  [rest |-> SubSeq(i, n + 1, Len(i)), out |-> SubSeq(i, 1, n)]

\* str::replace("\\$", "$")
RECURSIVE replace_escaped_dollar(_)
replace_escaped_dollar(str) ==
    IF str = <<>> THEN <<>>
    ELSE IF Len(str) >= 2 /\ str[1] = "\\" /\ str[2] = "$"
         THEN <<"$">> \o replace_escaped_dollar(SubSeq(str, 3, Len(str)))
    ELSE <<str[1]>> \o replace_escaped_dollar(Tail(str))

\* the length of the identifier i starts with (parser::modus_var)
RECURSIVE identifier_length(_, _)
identifier_length(i, n) ==
    IF n < Len(i) /\ i[n + 1] \in IdentifierChars THEN identifier_length(i, n + 1) ELSE n

\* delimited(tag("${"), modus_var, tag("}"))
format_expansion(i) ==
    IF Len(i) >= 2 /\ i[1] = "$" /\ i[2] = "{"
    THEN LET inside == SubSeq(i, 3, Len(i))
             n == identifier_length(inside, 0)
         IN  IF n >= 1 /\ n < Len(inside) /\ inside[n + 1] = "}"
             THEN [ok |-> TRUE, rest |-> SubSeq(inside, n + 2, Len(inside)),
                   variable |-> SubSeq(inside, 1, n)]
             ELSE [ok |-> FALSE]
    ELSE [ok |-> FALSE]

\* mutant: the literal of an expansion starts again from the variable before the segment
\* instead of continuing from the segment's variable
RECURSIVE convert_loop(_, _, _, _)
convert_loop_forking(curr_string, prev_variable, new_literals, ctr) ==
    IF curr_string = <<>>
    THEN [literals |-> new_literals, term |-> prev_variable, counter |-> ctr]
    ELSE LET parsed == outside_format_expansion(curr_string)
             constant_str == replace_escaped_dollar(parsed.out)
             new_var == aux(ctr)
             new_literal == Literal(None, "string_concat",
                                    <<prev_variable, Constant(constant_str), new_var>>)
             variable_res == format_expansion(parsed.rest)
         IN  IF variable_res.ok
             THEN LET new_var2 == aux(fetch_add(ctr))
                      new_literal2 == Literal(None, "string_concat",
                                          <<prev_variable, UserVariable(variable_res.variable),
                                            new_var2>>)
                  IN  convert_loop(variable_res.rest, new_var2,
                                   new_literals \o <<new_literal, new_literal2>>,
                                   fetch_add(fetch_add(ctr)))
             ELSE convert_loop(<<>>, new_var, Append(new_literals, new_literal), fetch_add(ctr))

\* the while loop of convert_format_string
convert_loop(curr_string, prev_variable, new_literals, ctr) ==
    IF curr_string = <<>>
    THEN [literals |-> new_literals, term |-> prev_variable, counter |-> ctr]
    ELSE LET parsed == outside_format_expansion(curr_string)
             constant_str == replace_escaped_dollar(parsed.out)
             new_var == aux(ctr)
             new_literal == Literal(None, "string_concat",
                                    <<prev_variable, Constant(constant_str), new_var>>)
             variable_res == format_expansion(parsed.rest)
         IN  IF variable_res.ok
             THEN LET new_var2 == aux(fetch_add(ctr))
                      new_literal2 == Literal(None, "string_concat",
                                          <<new_var, UserVariable(variable_res.variable),
                                            new_var2>>)
                  IN  convert_loop(variable_res.rest, new_var2,
                                   new_literals \o <<new_literal, new_literal2>>,
                                   fetch_add(fetch_add(ctr)))
             ELSE convert_loop(<<>>, new_var, Append(new_literals, new_literal), fetch_add(ctr))

\* translate::convert_format_string, with the counter threaded through
convert_format_string(format_string_content, ctr) ==
    LET prev_variable == aux(ctr)
    IN  convert_loop(format_string_content, prev_variable,
                     <<Literal(None, "string_concat",
                               <<Constant(<<>>), Constant(<<>>), prev_variable>>)>>,
                     fetch_add(ctr))

-----------------------------------------------------------------------------
(* translate.rs: lowering of surface clauses.  Surface terms and expressions are  *)
(* tagged records: ModusTerm is Constant, FormatString or UserVariable; an        *)
(* Expression is Literal, OperatorApplication, And or Or.                         *)

ModusConstant(s) == [t |-> "Constant", s |-> s]
ModusFormatString(s) == [t |-> "FormatString", s |-> s]
ModusUserVariable(s) == [t |-> "UserVariable", s |-> s]

ModusLiteral(predicate, args) == [predicate |-> predicate, args |-> args]

ExpressionLiteral(l) == [tag |-> "Literal", l |-> l]
OperatorApplication(e, op) == [tag |-> "OperatorApplication", e |-> e, op |-> op]
And(e1, e2) == [tag |-> "And", e1 |-> e1, e2 |-> e2]
Or(e1, e2) == [tag |-> "Or", e1 |-> e1, e2 |-> e2]

ModusClause(head, body) == [head |-> head, body |-> body]

\* modus_clause.head.clone().into(): the surface head as an IR literal (the conversion is
\* not in the source tree; heads hold constants and user variables)
head_into(head) ==
    Literal(None, head.predicate,
            [i \in DOMAIN head.args |->
                IF head.args[i].t = "Constant" THEN Constant(head.args[i].s)
                ELSE UserVariable(head.args[i].s)])

\* the loop over l.args of the Expression::Literal case: the literals emitted for format
\* strings, the rewritten arguments, and the counter
RECURSIVE lower_args(_, _, _, _)
lower_args(args, literals, new_literal_args, ctr) ==
    IF args = <<>>
    THEN [literals |-> literals, new_literal_args |-> new_literal_args, counter |-> ctr]
    ELSE LET arg == Head(args)
         IN  IF arg.t = "Constant"
             THEN lower_args(Tail(args), literals, Append(new_literal_args, Constant(arg.s)), ctr)
             ELSE IF arg.t = "FormatString"
             THEN LET converted == convert_format_string(arg.s, ctr)
                  IN  lower_args(Tail(args), literals \o converted.literals,
                                 Append(new_literal_args, converted.term), converted.counter)
             ELSE lower_args(Tail(args), literals,
                             Append(new_literal_args, UserVariable(arg.s)), ctr)

\* mutant: the product is taken with the clauses of the right operand outermost
and_product_right_major(c1, c2) ==
    concat_all([j \in DOMAIN c2 |->
                   [i \in DOMAIN c1 |-> Clause(c1[i].head, c1[i].body \o c2[j].body)]])

\* the two nested loops of the Expression::And case
and_product(c1, c2) ==
    concat_all([i \in DOMAIN c1 |->
                   [j \in DOMAIN c2 |-> Clause(c1[i].head, c1[i].body \o c2[j].body)]])

\* impl From<&ModusClause> for Vec<logic::Clause>, with the counter threaded through
RECURSIVE from_modus_clause(_, _)
from_modus_clause(modus_clause, ctr) ==
    IF modus_clause.body = None
    THEN [clauses |-> <<Clause(head_into(modus_clause.head), <<>>)>>, counter |-> ctr]
    ELSE LET body == modus_clause.body[1]
         IN  IF body.tag = "Literal" THEN
                 LET lowered == lower_args(body.l.args, <<>>, <<>>, ctr)
                 IN  [clauses |-> <<Clause(head_into(modus_clause.head),
                                           Append(lowered.literals,
                                                  Literal(None, body.l.predicate,
                                                          lowered.new_literal_args)))>>,
                      counter |-> lowered.counter]
             ELSE IF body.tag = "OperatorApplication" THEN
                 from_modus_clause(ModusClause(modus_clause.head, Some(body.e)), ctr)
             ELSE
                 LET c1 == from_modus_clause(ModusClause(modus_clause.head, Some(body.e1)), ctr)
                     c2 == from_modus_clause(ModusClause(modus_clause.head, Some(body.e2)),
                                             c1.counter)
                 IN  IF body.tag = "And"
                     THEN [clauses |-> and_product(c1.clauses, c2.clauses), counter |-> c2.counter]
                     ELSE [clauses |-> c1.clauses \o c2.clauses, counter |-> c2.counter]

-----------------------------------------------------------------------------
(* Inputs: a pool of clauses and goals the programs of the model are drawn from *)

X == UserVariable(<<"X">>)
Y == UserVariable(<<"Y">>)
Z == UserVariable(<<"Z">>)
c == Constant(<<"c">>)
d == Constant(<<"d">>)

\* a literal as the parser builds it: with a source position
Parsed(offset, predicate, args) ==
    Literal(Some(SpannedPosition(offset, Len(args) + 1)), predicate, args)

\* a literal built directly, without a source position
Built(predicate, args) == Literal(None, predicate, args)

RulePool == <<
    Clause(Parsed(0, "a", <<X>>), <<Parsed(8, "b", <<X>>)>>),            \* a(X) :- b(X).
    Clause(Parsed(0, "b", <<c>>), <<>>),                                 \* b("c").
    Clause(Parsed(0, "b", <<d>>), <<>>),                                 \* b("d").
    Clause(Parsed(0, "a", <<X>>), <<Parsed(8, "a", <<X>>)>>),            \* a(X) :- a(X).
    Clause(Parsed(0, "a", <<X>>), <<Parsed(8, "u", <<X>>)>>),            \* a(X) :- u(X).   u is defined nowhere
    Clause(Parsed(0, "a", <<X>>), <<Built("v", <<X>>)>>),                \* a(X) :- v(X).   v is defined nowhere, no position
    Clause(Parsed(0, "b", <<X>>), <<>>),                                 \* b(X).
    Clause(Parsed(0, "a", <<X>>),
           <<Parsed(8, "b", <<Y>>), Parsed(14, "string_concat", <<Y, X, Constant(<<"c", "d">>)>>)>>),
                                                                         \* a(X) :- b(Y), string_concat(Y, X, "cd").
    Clause(Parsed(0, "a", <<X>>), <<Parsed(8, "b", <<X>>), Parsed(14, "u", <<X>>)>>),
                                                                         \* a(X) :- b(X), u(X).
    Clause(Parsed(0, "a", <<Y>>),
           <<Parsed(8, "a", <<X>>), Parsed(14, "string_concat", <<X, Y, Constant(<<"c", "d">>)>>)>>)
                                                                         \* a(Y) :- a(X), string_concat(X, Y, "cd").
>>

GoalPool == <<
    <<>>,
    <<Parsed(0, "a", <<X>>)>>,
    <<Parsed(0, "a", <<d>>)>>,
    <<Parsed(0, "a", <<X>>), Parsed(6, "b", <<X>>)>>,
    <<Parsed(0, "b", <<X>>)>>,
    <<Parsed(0, "u", <<c>>)>>,
    <<Built("v", <<c>>)>>,
    <<Parsed(0, "string_concat", <<X, Y, Z>>), Parsed(24, "b", <<X>>)>>,
    <<Parsed(0, "string_concat", <<c, d, X>>), Parsed(24, "run", <<X>>)>>,
    <<Parsed(0, "b", <<X>>), Parsed(6, "u", <<X>>)>>
>>

\* the programs: up to MaxRules clauses of the pool, in pool order
RECURSIVE pick(_, _)
pick(idx, i) ==
    IF i > Len(RulePool) THEN <<>>
    ELSE IF i \in idx THEN <<RulePool[i]>> \o pick(idx, i + 1) ELSE pick(idx, i + 1)

Programs ==
    {rs \in {pick(idx, 1) : idx \in {S \in SUBSET DOMAIN RulePool : Cardinality(S) <= MaxRules}} :
        groundness_consistent(rs)}

Goals == Range(GoalPool)

-----------------------------------------------------------------------------
(* The driver: one engine invocation, then answer extraction *)

\* literals the stand-alone library calls are tried on
R0 == RenamedVariable(0, X)
R1 == RenamedVariable(1, Y)
A0 == AuxiliaryVariable(0)
ab == Constant(<<"a", "b">>)
cd == Constant(<<"c", "d">>)
empty == Constant(<<>>)

LabLiterals ==
    {Parsed(0, "a", <<t>>) : t \in {X, c, d, R0}}
    \cup {Parsed(0, "p", ts) : ts \in {<<X, Y>>, <<X, X>>, <<c, X>>, <<X, c>>, <<c, d>>, <<c, c>>,
                                        <<R0, R1>>, <<R0, R0>>, <<A0, X>>, <<Y, X>>}}
    \cup {Parsed(0, "string_concat", <<t1, t2, t3>>) :
              t1 \in {X, c}, t2 \in {Y, d}, t3 \in {Z, cd}}
    \cup {Parsed(0, p, <<t>>) : p \in {"run", "from", "u"}, t \in {X, c}}
    \cup {Built("a", <<X>>), Parsed(0, "a", <<>>), Parsed(0, "a", <<X, Y>>)}

\* string_concat literals over short strings, each argument a constant or a variable
ConcatLiterals ==
    {Parsed(0, "string_concat", <<t1, t2, t3>>) :
         t1 \in {X, empty, c, d, cd}, t2 \in {Y, empty, c, d, cd}, t3 \in {Z, empty, c, d, cd}}

\* format strings: outside segments, ${v} expansions and escaped dollars
FormatStrings == {
    <<>>,                                                   \* ""
    <<"A">>,                                                \* "A"
    <<"A", "B">>,                                           \* "AB"
    <<"$", "{", "v", "}">>,                                 \* "${v}"
    <<"A", "$", "{", "v", "}">>,                            \* "A${v}"
    <<"$", "{", "v", "}", "B">>,                            \* "${v}B"
    <<"A", "$", "{", "v", "}", "B">>,                       \* "A${v}B"
    <<"$", "{", "v", "}", "$", "{", "w", "}">>,             \* "${v}${w}"
    <<"$", "{", "v", "}", "A", "$", "{", "v", "}">>,        \* "${v}A${v}"
    <<"A", "$", "{", "v", "w", "}", "B", "$", "{", "w", "}">>,  \* "A${vw}B${w}"
    <<"\\", "$">>,                                          \* "\$"
    <<"A", "\\", "$", "{", "v", "}">>,                      \* "A\${v}"
    <<"$", "{", "v", "}", "\\", "$", "B">>                  \* "${v}\$B"
}

\* surface literals and expressions the lowering is tried on
SurfaceLiterals ==
    {ModusLiteral("p", <<ModusConstant(<<"c">>)>>),
     ModusLiteral("q", <<ModusUserVariable(<<"X">>), ModusConstant(<<"d">>)>>),
     ModusLiteral("r", <<ModusFormatString(<<"A", "$", "{", "v", "}">>)>>)}

merge == ModusLiteral("merge", <<>>)

Expressions0 == {ExpressionLiteral(l) : l \in SurfaceLiterals}

Expressions1 ==
    Expressions0
    \cup {And(e1, e2) : e1 \in Expressions0, e2 \in Expressions0}
    \cup {Or(e1, e2) : e1 \in Expressions0, e2 \in Expressions0}
    \cup {OperatorApplication(e, merge) : e \in Expressions0}

\* expressions nested two deep whose operands are disjunctions, conjunctions or literals
Expressions2 ==
    Expressions1
    \cup {And(e1, e2) : e1 \in Expressions1 \ Expressions0, e2 \in Expressions1}
    \cup {Or(e1, e2) : e1 \in Expressions1, e2 \in Expressions1 \ Expressions0}
    \cup {OperatorApplication(e, merge) : e \in Expressions1 \ Expressions0}

SurfaceClauses ==
    {ModusClause(ModusLiteral("foo", <<ModusUserVariable(<<"X">>)>>), None)}
    \cup {ModusClause(ModusLiteral("foo", <<ModusUserVariable(<<"X">>)>>), Some(e)) :
              e \in Expressions2}

\* the literals goals are made of when select is called on its own: admissible ones,
\* ones with a groundness mismatch (user and builtin) and unknown ones
SelectLiterals ==
    {Parsed(0, "a", <<X>>), Parsed(0, "a", <<c>>), Parsed(0, "b", <<X>>),
     Parsed(0, "string_concat", <<X, Y, Z>>), Parsed(0, "string_concat", <<c, d, Z>>),
     Parsed(0, "u", <<X>>), Built("v", <<c>>)}

\* goals of up to MaxGoalLen literals
SelectGoals == UNION {[1..n -> SelectLiterals] : n \in 0..MaxGoalLen}

\* the programs whose groundness map select is given
SelectPrograms ==
    {<<>>,
     <<RulePool[2]>>,                                     \* b("c").
     <<Clause(Parsed(0, "a", <<X>>), <<>>)>>,             \* a(X).
     <<Clause(Parsed(0, "a", <<X>>), <<>>), RulePool[2]>>,
     <<RulePool[1], RulePool[2]>>}                        \* a(X) :- b(X). b("c").

LabClauses ==
    Range(RulePool) \cup
    {Clause(Parsed(0, "p", <<X, Y>>), <<Parsed(8, "p", <<X, Z>>), Parsed(16, "p", <<Z, Y>>)>>),
     Clause(Parsed(0, "p", <<R0, c>>), <<Parsed(8, "a", <<A0>>)>>)}

\* the programs and depth bounds of the engine's own tests
TestDepth == 10

ConstT == Constant(<<"t">>)
ConstF == Constant(<<"f">>)
ConstG == Constant(<<"g">>)

\* tests::simple_solving: a(X) :- b(X). b("c"). b("d").
simple_solving == <<RulePool[1], RulePool[2], RulePool[3]>>

\* tests::complex_goal: a("t"). a("f"). b("g"). b("t").
complex_goal == <<
    Clause(Parsed(0, "a", <<ConstT>>), <<>>),
    Clause(Parsed(0, "a", <<ConstF>>), <<>>),
    Clause(Parsed(0, "b", <<ConstG>>), <<>>),
    Clause(Parsed(0, "b", <<ConstT>>), <<>>)
>>

\* tests::solving_with_binary_relations:
\* a(X) :- b(X, Y), c(Y). b("t", "f"). b("f", "t"). b("g", "t"). c("t").
solving_with_binary_relations == <<
    Clause(Parsed(0, "a", <<X>>), <<Parsed(8, "b", <<X, Y>>), Parsed(17, "c", <<Y>>)>>),
    Clause(Parsed(0, "b", <<ConstT, ConstF>>), <<>>),
    Clause(Parsed(0, "b", <<ConstF, ConstT>>), <<>>),
    Clause(Parsed(0, "b", <<ConstG, ConstT>>), <<>>),
    Clause(Parsed(0, "c", <<ConstT>>), <<>>)
>>

\* tests::simple_recursion: left-recursive reachability over the arcs
\* a->b->c->d->e, g->f->e, g->a, with the depth bound of the test
ReachDepth == 15

node(n) == Constant(<<n>>)

arc(from, to) == Clause(Parsed(0, "arc", <<node(from), node(to)>>), <<>>)

simple_recursion == <<
    Clause(Parsed(0, "reach", <<X, Y>>),
           <<Parsed(15, "reach", <<X, Z>>), Parsed(28, "arc", <<Z, Y>>)>>),
                                                    \* reach(X, Y) :- reach(X, Z), arc(Z, Y).
    Clause(Parsed(0, "reach", <<X, Y>>), <<Parsed(15, "arc", <<X, Y>>)>>),
                                                    \* reach(X, Y) :- arc(X, Y).
    arc("a", "b"), arc("b", "c"), arc("c", "d"), arc("d", "e"),
    arc("f", "e"), arc("g", "f"), arc("g", "a")
>>

\* reach(n, X), the goal of the test for n = "a"
reach_from(n) == <<Parsed(0, "reach", <<node(n), X>>)>>

\* tests::string_concat_complex: a("ab"). a(S) :- string_concat("a", X, S),
\* string_concat(Y, "b", X), a(Y).   with the depth bound of the test
SplitDepth == 50

string_concat_complex == <<
    Clause(Parsed(0, "a", <<ab>>), <<>>),
    Clause(Parsed(0, "a", <<UserVariable(<<"S">>)>>),
           <<Parsed(8, "string_concat", <<Constant(<<"a">>), X, UserVariable(<<"S">>)>>),
             Parsed(35, "string_concat", <<Y, Constant(<<"b">>), X>>),
             Parsed(62, "a", <<Y>>)>>)
>>

\* the strings the goal a(s) is tried on: every string of a and b up to MaxSplitLen
\* characters, and the longer ones of the test
SplitStrings ==
    UNION {[1..n -> {"a", "b"}] : n \in 0..MaxSplitLen}
    \cup {<<"a", "a", "a", "b", "b", "b">>, <<"a", "a", "b", "b", "b">>,
          <<"a", "a", "a", "b", "b">>, <<"a", "b", "a", "a", "b", "b">>}

\* tests::simple_nongrounded and simple_nongrounded_invalid: a(X).
simple_nongrounded == <<Clause(Parsed(0, "a", <<X>>), <<>>)>>

\* goals of one or two literals over the predicates of a program, every argument one of
\* two variables or a constant: conjunctions share variables or not
goals_over(rs, k) ==
    LET heads == {rs[i].head : i \in DOMAIN rs}
        lits == UNION {{Parsed(0, h.predicate, args) :
                           args \in [DOMAIN h.args -> {X, Y, k}]} : h \in heads}
    IN  {<<l>> : l \in lits}
        \cup {<<l1, [l2 EXCEPT !.position = Some(SpannedPosition(8, Len(l2.args) + 1))]>> :
                  l1 \in lits, l2 \in lits}

TestCases ==
    {[rules |-> simple_solving, goal |-> g, maxdepth |-> TestDepth] :
         g \in goals_over(simple_solving, c)}
    \cup {[rules |-> complex_goal, goal |-> g, maxdepth |-> TestDepth] :
              g \in goals_over(complex_goal, ConstT)}
    \cup {[rules |-> solving_with_binary_relations, goal |-> g, maxdepth |-> TestDepth] :
              g \in goals_over(solving_with_binary_relations, ConstT)}
    \cup {[rules |-> simple_recursion, goal |-> reach_from(n), maxdepth |-> ReachDepth] :
              n \in {"a", "c", "e", "f"}}
    \cup {[rules |-> simple_recursion, goal |-> reach_from("a"), maxdepth |-> TestDepth]}
    \cup {[rules |-> simple_solving, maxdepth |-> TestDepth,
           goal |-> <<Parsed(0, "string_concat", <<X, Y, Z>>), Parsed(24, "a", <<X>>),
                      Parsed(30, "b", <<Y>>), Parsed(36, "b", <<X>>)>>]}
                                                     \* the concatenation waits for X and Y
    \cup {[rules |-> simple_solving, maxdepth |-> TestDepth,
           goal |-> <<Parsed(0, "a", <<X>>), Parsed(6, "string_concat", <<X, Y, Z>>),
                      Parsed(30, "a", <<Y>>)>>]}
    \cup {[rules |-> simple_nongrounded, goal |-> g, maxdepth |-> TestDepth] :
              g \in {<<Parsed(0, "a", <<X>>)>>, <<Parsed(0, "a", <<Constant(<<"b">>)>>)>>}}
    \cup {[rules |-> string_concat_complex, goal |-> <<Parsed(0, "a", <<Constant(str)>>)>>,
           maxdepth |-> SplitDepth] : str \in SplitStrings}

NotRun == [tag |-> "NotRun"]

InitSld ==
    /\ pc = "loaded"
    /\ rules \in Programs
    /\ goal \in Goals
    /\ maxdepth \in 0..MaxDepth
    /\ hashSeed \in {0, 1}
    /\ counter = 0
    /\ result = NotRun
    /\ answers = {}
    /\ proofList = NotRun
    /\ lab = NotRun

\* an engine run on one of the test programs, with the depth bound of the test
InitTests ==
    /\ pc = "loaded"
    /\ \E tc \in TestCases :
           /\ rules = tc.rules
           /\ goal = tc.goal
           /\ maxdepth = tc.maxdepth
    /\ hashSeed \in {0, 1}
    /\ counter = 0
    /\ result = NotRun
    /\ answers = {}
    /\ proofList = NotRun
    /\ lab = NotRun

InitLab ==
    /\ pc = "lab"
    /\ rules = <<>>
    /\ goal = <<>>
    /\ maxdepth = 0
    /\ hashSeed \in {0, 1}
    /\ counter \in {0, 7, CounterMod - 1}
    /\ result = NotRun
    /\ answers = {}
    /\ proofList = NotRun
    /\ lab = NotRun

Threads == 1..NumThreads

\* threads about to call rename() and aux(); the counter is at program start or two calls
\* short of the end of its range
InitThreads ==
    /\ pc = "threads"
    /\ rules = <<>>
    /\ goal = <<>>
    /\ maxdepth = 0
    /\ hashSeed = 0
    /\ counter \in {0, CounterMod - 2}
    /\ result = NotRun
    /\ answers = {}
    /\ proofList = NotRun
    /\ lab = [op |-> "threads", start |-> counter,
              at |-> [t \in Threads |-> "idle"], index |-> [t \in Threads |-> 0],
              log |-> <<>>, returned |-> <<>>]

Init == InitSld \/ InitTests \/ InitLab \/ InitThreads

\* let result = sld(&clauses, &goal, maxdepth)
RunSld ==
    /\ pc = "loaded"
    /\ \E r \in {sld(rules, goal, maxdepth, counter, hashSeed)} :
           /\ result' = [x \in DOMAIN r \ {"counter"} |-> r[x]]
           /\ counter' = r.counter
    /\ pc' = "solved"
    /\ UNCHANGED <<rules, goal, maxdepth, hashSeed, answers, proofList, lab>>

\* let solutions = solutions(&result.unwrap())
RunSolutions ==
    /\ pc = "solved"
    /\ result.tag = "Some"
    /\ answers' = solutions(result.tree)
    /\ pc' = "extracted"
    /\ UNCHANGED <<rules, goal, maxdepth, hashSeed, counter, result, proofList, lab>>

\* let proofs = proofs(&tree, &clauses, &goal)
RunProofs ==
    /\ pc = "extracted"
    /\ proofList' = proofs(result.tree, rules, goal, hashSeed)
    /\ pc' = "proved"
    /\ UNCHANGED <<rules, goal, maxdepth, hashSeed, counter, result, answers, lab>>

\* a.unify(&b)
CallUnify ==
    /\ pc = "lab"
    /\ \E a \in LabLiterals, b \in LabLiterals :
           lab' = [op |-> "unify", a |-> a, b |-> b, out |-> unify(a, b)]
    /\ pc' = "called"
    /\ UNCHANGED <<rules, goal, maxdepth, hashSeed, counter, result, answers, proofList>>

\* clause.rename_with_sub()
CallRename ==
    /\ pc = "lab"
    /\ \E cl \in LabClauses :
           LET out == rename_with_sub(cl, counter, hashSeed)
           IN  /\ lab' = [op |-> "rename_with_sub", c |-> cl, before |-> counter,
                          clause |-> out.clause, renaming |-> out.renaming]
               /\ counter' = out.counter
    /\ pc' = "called"
    /\ UNCHANGED <<rules, goal, maxdepth, hashSeed, result, answers, proofList>>

\* builtin::select_builtin(&lit)
CallSelectBuiltin ==
    /\ pc = "lab"
    /\ \E lit \in LabLiterals :
           lab' = [op |-> "select_builtin", lit |-> lit, out |-> select_builtin(lit)]
    /\ pc' = "called"
    /\ UNCHANGED <<rules, goal, maxdepth, hashSeed, counter, result, answers, proofList>>

\* select(&goal, &grounded), with the groundness map of a program
CallSelect ==
    /\ pc = "lab"
    /\ \E g \in SelectGoals, rs \in SelectPrograms :
           lab' = [op |-> "select", goal |-> g, grounded |-> check_grounded_variables(rs),
                   out |-> select(goal_with_history(g), check_grounded_variables(rs))]
    /\ pc' = "called"
    /\ UNCHANGED <<rules, goal, maxdepth, hashSeed, counter, result, answers, proofList>>

\* the builtin resolvent inner computes for a goal made of one string_concat literal
CallBuiltinResolves ==
    /\ pc = "lab"
    /\ \E lit \in ConcatLiterals :
           LET g == goal_with_history(<<lit>>)
           IN  lab' = [op |-> "builtin_resolves", lit |-> lit,
                       out |-> builtin_resolves(0, g[1], g, 0)]
    /\ pc' = "called"
    /\ UNCHANGED <<rules, goal, maxdepth, hashSeed, counter, result, answers, proofList>>

\* translate::convert_format_string(s)
CallConvertFormatString ==
    /\ pc = "lab"
    /\ \E s \in FormatStrings :
           LET out == convert_format_string(s, counter)
           IN  /\ lab' = [op |-> "convert_format_string", s |-> s, before |-> counter,
                          literals |-> out.literals, term |-> out.term]
               /\ counter' = out.counter
    /\ pc' = "called"
    /\ UNCHANGED <<rules, goal, maxdepth, hashSeed, result, answers, proofList>>

\* Vec::<logic::Clause>::from(&modus_clause)
CallLower ==
    /\ pc = "lab"
    /\ \E mc \in SurfaceClauses :
           LET out == from_modus_clause(mc, counter)
           IN  /\ lab' = [op |-> "from_modus_clause", mc |-> mc, before |-> counter,
                          clauses |-> out.clauses]
               /\ counter' = out.counter
    /\ pc' = "called"
    /\ UNCHANGED <<rules, goal, maxdepth, hashSeed, result, answers, proofList>>

\* the fetch_add of a rename() or aux() call of thread t: one atomic read-modify-write
ThreadFetch(t, call) ==
    /\ pc = "threads"
    /\ lab.at[t] = "idle"
    /\ Len(lab.log) < MaxCalls
    /\ counter' = fetch_add(counter)
    /\ lab' = [lab EXCEPT !.at[t] = call, !.index[t] = counter,
                          !.log = Append(@, [thread |-> t, id |-> counter, after |-> counter'])]
    /\ UNCHANGED <<pc, rules, goal, maxdepth, hashSeed, result, answers, proofList>>

\* IRTerm::rename on a variable, up to its fetch_add
ThreadRename == \E t \in Threads : ThreadFetch(t, "rename")

\* IRTerm::aux, up to its fetch_add
ThreadAux == \E t \in Threads : ThreadFetch(t, "aux")

\* the call of thread t returns the term built from the index it fetched
ThreadReturn ==
    /\ pc = "threads"
    /\ \E t \in Threads :
           /\ lab.at[t] \in {"rename", "aux"}
           /\ lab' = [lab EXCEPT !.at[t] = "idle",
                                 !.returned = Append(@, IF lab.at[t] = "rename"
                                                        THEN rename(X, lab.index[t])
                                                        ELSE AuxiliaryVariable(lab.index[t]))]
    /\ UNCHANGED <<pc, rules, goal, maxdepth, hashSeed, counter, result, answers, proofList>>

Next ==
    \/ RunSld \/ RunSolutions \/ RunProofs
    \/ CallUnify \/ CallRename \/ CallSelectBuiltin \/ CallSelect \/ CallBuiltinResolves
    \/ CallConvertFormatString \/ CallLower
    \/ ThreadRename \/ ThreadAux \/ ThreadReturn

Spec == Init /\ [][Next]_vars

-----------------------------------------------------------------------------
(* Helpers of the properties *)

\* the argument positions of a goal: <<literal index, argument index>>
arg_positions(g) == {<<i, j>> : i \in DOMAIN g, j \in 1..3} \cap
                    UNION {{<<i, j>> : j \in DOMAIN g[i].args} : i \in DOMAIN g}

\* g2 = g1.substitute(s) for some substitution s: same shape, constants kept, and
\* equal variables of g1 replaced by equal terms
is_instance(g2, g1) ==
    /\ Len(g2) = Len(g1)
    /\ \A i \in DOMAIN g1 :
           /\ g2[i].predicate = g1[i].predicate
           /\ g2[i].position = g1[i].position
           /\ Len(g2[i].args) = Len(g1[i].args)
    /\ \A p \in arg_positions(g1) :
           g1[p[1]].args[p[2]].k = "C" => g2[p[1]].args[p[2]] = g1[p[1]].args[p[2]]
    /\ \A p \in arg_positions(g1), q \in arg_positions(g1) :
           g1[p[1]].args[p[2]] = g1[q[1]].args[q[2]]
               => g2[p[1]].args[p[2]] = g2[q[1]].args[q[2]]

goal_is_ground(g) == \A i \in DOMAIN g : is_ground_literal(g[i])

\* every node of a tree
RECURSIVE subtrees(_)
subtrees(tree) ==
    {tree} \cup UNION {subtrees(tree.resolvents[i].tree) : i \in DOMAIN tree.resolvents}

engine_ran == pc \in {"solved", "extracted", "proved"}

\* the run at depth dd of the loaded program and goal
run_at(dd) == sld(rules, goal, dd, 0, hashSeed)

eq_ignoring_position(l1, l2) == l1.predicate = l2.predicate /\ l1.args = l2.args

\* applying s twice gives what applying it once gives
idempotent(s) == \A t \in DOMAIN s : substitute_term(s[t], s) = s[t]

\* s makes the two literals equal
unifies(s, l1, l2) == eq_ignoring_position(substitute_literal(l1, s), substitute_literal(l2, s))

\* some position holds two different constants
constants_clash(l1, l2) ==
    \E i \in DOMAIN l1.args \cap DOMAIN l2.args :
        l1.args[i].k = "C" /\ l2.args[i].k = "C" /\ l1.args[i] # l2.args[i]

\* the head a resolvent edge was unified with: the renamed rule head, or the builtin's head
edge_head(e) ==
    IF e.cid.tag = "Rule" THEN substitute_literal(rules[e.cid.rid + 1].head, e.renaming)
    ELSE e.cid.head[1]

\* the edges of a tree: <<node, resolvent entry>>
edges(tree) == UNION {{<<n, n.resolvents[i]>> : i \in DOMAIN n.resolvents} : n \in subtrees(tree)}

builtin_names == {Builtins[i].name : i \in DOMAIN Builtins}

\* the literal is one select can pick: a builtin mode accepts it, or its signature is in
\* the groundness map and every variable sits at a position the map allows
selectable(literal, grounded) ==
    \/ \E i \in DOMAIN Builtins : builtin_select(Builtins[i], literal)
    \/ /\ signature(literal) \in DOMAIN grounded
       /\ \A i \in DOMAIN literal.args :
              grounded[signature(literal)][i] \/ literal.args[i].k = "C"

\* no builtin owns the name and the groundness map lacks the signature
is_unknown(literal, grounded) ==
    literal.predicate \notin builtin_names /\ signature(literal) \notin DOMAIN grounded

\* the left-to-right scan of g passes over literals 1..i-1 and reaches the unknown literal i
scan_reaches_unknown(g, grounded, i) ==
    /\ i \in DOMAIN g
    /\ is_unknown(g[i], grounded)
    /\ \A j \in 1..(i - 1) : ~is_unknown(g[j], grounded) /\ ~selectable(g[j], grounded)

\* the resolvents of the root goal, in the order inner's loop explores them
RECURSIVE rule_candidates(_, _, _, _, _, _)
rule_candidates(rs, rid, lid, l, g, seed) ==
    IF rid >= Len(rs) THEN <<>>
    ELSE (IF signature(rs[rid + 1].head) # signature(l.literal) THEN <<>>
          ELSE user_rule_resolves(rs, rid, lid, l, g, 0, 8 * rid, seed).found)
         \o rule_candidates(rs, rid + 1, lid, l, g, seed)

root_candidates ==
    LET g == goal_with_history(goal)
        selected == select(g, check_grounded_variables(rules))
    IN  IF goal = <<>> \/ maxdepth = 0 \/ selected.tag # "Some" THEN <<>>
        ELSE builtin_resolves(selected.lid, selected.l, g, 0)
             \o rule_candidates(rules, 0, selected.lid, selected.l, g, hashSeed)

\* what the recursive inner call on the k-th root resolvent returns (the renamed variables
\* of the call are taken from the upper half of the counter's range, clear of the root's)
root_child(k) ==
    inner(rules, root_candidates[k].resolvent, maxdepth, 1, check_grounded_variables(rules),
          CounterMod \div 2, hashSeed)

\* the k-th recursive call is the first that does not return Ok, and it returns Err
first_failure_is_err(k) ==
    /\ k \in DOMAIN root_candidates
    /\ root_child(k).tag = "Err"
    /\ \A j \in 1..(k - 1) : root_child(j).tag \in {"Some", "None"}

\* the outcome select_builtin of builtin.rs reports: Some(pred) is a match, None is "no match"
select_builtin_outcome(out) == IF out # None THEN "Match" ELSE "NoMatch"

\* the string_concat modes (indices into Builtins) whose select passes on the literal
passing_modes(lit) == {i \in 1..3 : builtin_select(Builtins[i], lit)}

variable_positions(lit) == {i \in DOMAIN lit.args : lit.args[i].k # "C"}

is_string_concat3(lit) == lit.predicate = "string_concat" /\ Len(lit.args) = 3

\* the strings a variable of a string_concat literal over ConcatLiterals can stand for
RECURSIVE strings_upto(_)
strings_upto(n) ==
    IF n = 0 THEN {<<>>}
    ELSE strings_upto(n - 1) \cup
         {Append(w, ch) : w \in {v \in strings_upto(n - 1) : Len(v) = n - 1}, ch \in {"c", "d"}}

\* the triples of strings that agree with the literal's constants and satisfy c = a ++ b
concat_models(lit) ==
    {t \in strings_upto(4) \X strings_upto(4) \X strings_upto(4) :
        /\ t[3] = t[1] \o t[2]
        /\ \A i \in 1..3 : lit.args[i].k = "C" => lit.args[i].s = t[i]}

\* the proofs of all paths of the run's tree, in path-enumeration order, before the
\* de-duplication
all_proofs_of_run ==
    LET paths == flatten_compose(0, ClauseIdQuery, EmptySubstitution,
                                 [v \in goal_variables(goal) |-> v], result.tree, hashSeed)
    IN  [i \in DOMAIN paths |-> proof_for_level(paths[i].nodes, paths[i].mgu, rules, 0)]

\* the goal a proof projects to
projection(p) == substitute_goal(goal, p.valuation)

\* the indices of the proofs that are the first of their projected goal
first_occurrences(ps) ==
    {i \in DOMAIN ps : \A j \in 1..(i - 1) : projection(ps[j]) # projection(ps[i])}

\* the k-th smallest element of a set of indices
kth(S, k) == CHOOSE i \in S : Cardinality({j \in S : j <= i}) = k

\* the pieces of a format string in source order, read character by character: the text
\* before each expansion (possibly empty) and after the last one (if any is left), with
\* escaped dollars resolved, and the variable of each expansion
RECURSIVE pieces(_, _, _)
pieces(s, n, text) ==
    IF n > Len(s) THEN (IF text = <<>> THEN <<>> ELSE <<Constant(text)>>)
    ELSE IF s[n] = "\\" THEN pieces(s, n + 2, Append(text, s[n + 1]))
    ELSE IF s[n] = "$" THEN
        LET close == CHOOSE j \in (n + 1)..Len(s) :
                         s[j] = "}" /\ \A k \in (n + 1)..(j - 1) : s[k] # "}"
        IN  <<Constant(text), UserVariable(SubSeq(s, n + 2, close - 1))>>
                \o pieces(s, close + 1, <<>>)
    ELSE pieces(s, n + 1, Append(text, s[n]))

\* the string a format string stands for once its variables have the values of val
RECURSIVE substituted_text(_, _)
substituted_text(ps, val) ==
    IF ps = <<>> THEN <<>>
    ELSE (IF Head(ps).k = "C" THEN Head(ps).s ELSE val[Head(ps)]) \o substituted_text(Tail(ps), val)

\* the values an expansion variable is bound to
ExpansionValues == {<<>>, <<"x">>, <<"c", "d">>}

\* the lowered chain with the expansion variables bound by val, resolved by the engine
resolved_chain(literals, val, seed) ==
    LET bound == [i \in DOMAIN literals |->
                     substitute_literal(literals[i], [v \in DOMAIN val |-> Constant(val[v])])]
        run == sld(<<>>, bound, Len(bound) + 1, CounterMod \div 2, seed)
    IN  IF run.tag = "Some" THEN solutions(run.tree) ELSE {}

\* lower(e), the reference definition: the bodies of an expression, and the counter after
\* them.  The body of a literal is its format-string literals followed by the literal.
RECURSIVE lower(_, _)
lower(e, ctr) ==
    IF e.tag = "Literal" THEN
        LET lowered == lower_args(e.l.args, <<>>, <<>>, ctr)
        IN  [bodies |-> <<Append(lowered.literals,
                                 Literal(None, e.l.predicate, lowered.new_literal_args))>>,
             counter |-> lowered.counter]
    ELSE IF e.tag = "OperatorApplication" THEN lower(e.e, ctr)
    ELSE LET l1 == lower(e.e1, ctr)
             l2 == lower(e.e2, l1.counter)
             n1 == Len(l1.bodies)
             n2 == Len(l2.bodies)
         IN  IF e.tag = "And"
             THEN [bodies |-> [k \in 1..(n1 * n2) |->
                                  l1.bodies[((k - 1) \div n2) + 1] \o l2.bodies[((k - 1) % n2) + 1]],
                   counter |-> l2.counter]
             ELSE [bodies |-> [k \in 1..(n1 + n2) |->
                                  IF k <= n1 THEN l1.bodies[k] ELSE l2.bodies[k - n1]],
                   counter |-> l2.counter]

\* a literal without its position
atom(l) == [predicate |-> l.predicate, args |-> l.args]

\* the literals of the bodies of a program
body_literals(rs) == UNION {Range(rs[i].body) : i \in DOMAIN rs}

\* the constants a program and a goal mention
constants_of(rs, g) ==
    {t \in UNION ({Range(rs[i].head.args) : i \in DOMAIN rs}
                  \cup {Range(l.args) : l \in body_literals(rs)}
                  \cup {Range(g[i].args) : i \in DOMAIN g}) : t.k = "C"}

\* the ground atom a literal becomes when its variables take the values of asg
instantiate(l, asg) ==
    [predicate |-> l.predicate,
     args |-> [i \in DOMAIN l.args |-> IF l.args[i].k = "C" THEN l.args[i] ELSE asg[l.args[i]]]]

\* the atoms that follow in one step from the atoms of known: the heads of the ground
\* instances of clauses whose body atoms are all known
immediate_consequences(rs, universe, known) ==
    UNION {{instantiate(rs[i].head, asg) :
               asg \in {a \in [clause_variables(rs[i]) -> universe] :
                            \A b \in DOMAIN rs[i].body : instantiate(rs[i].body[b], a) \in known}} :
           i \in DOMAIN rs}

\* the consequences of a program: the least set closed under immediate_consequences
RECURSIVE consequences(_, _, _)
consequences(rs, universe, known) ==
    LET more == known \cup immediate_consequences(rs, universe, known)
    IN  IF more = known THEN known ELSE consequences(rs, universe, more)

\* the ground instances of g all of whose atoms are consequences of rs, a variable
\* taking the same value at each of its occurrences
consequence_instances(rs, g) ==
    LET universe == constants_of(rs, g)
        model == consequences(rs, universe, {})
        gv == UNION {literal_variables(g[i]) : i \in DOMAIN g}
    IN  {[i \in DOMAIN g |-> instantiate(g[i], asg)] :
            asg \in {a \in [gv -> universe] :
                         \A i \in DOMAIN g : instantiate(g[i], a) \in model}}

\* no predicate of the program depends on itself: the predicates can be ranked so that
\* every head ranks above the literals of its body
non_recursive(rs) ==
    LET sigs == {signature(rs[i].head) : i \in DOMAIN rs}
                \cup {signature(l) : l \in body_literals(rs)}
    IN  \E rank \in [sigs -> 1..Cardinality(sigs)] :
            \A i \in DOMAIN rs : \A b \in DOMAIN rs[i].body :
                rank[signature(rs[i].head)] > rank[signature(rs[i].body[b])]

\* a program of ground facts and non-recursive rules over user predicates, every head
\* variable of a rule bound by its body, and a goal over the predicates it defines
ground_facts_and_rules(rs, g) ==
    LET defined == {signature(rs[i].head) : i \in DOMAIN rs}
        used == body_literals(rs) \cup Range(g)
    IN  /\ \A i \in DOMAIN rs :
               /\ rs[i].body = <<>> => is_ground_literal(rs[i].head)
               /\ literal_variables(rs[i].head)
                      \subseteq UNION {literal_variables(rs[i].body[b]) : b \in DOMAIN rs[i].body}
        /\ \A l \in used : signature(l) \in defined /\ l.predicate \notin builtin_names
        /\ non_recursive(rs)

\* the number of resolution steps of the longest derivation of the literals lits, for a
\* non-recursive program: one step per literal plus the steps of the costliest body
RECURSIVE derivation_steps(_, _)
derivation_steps(rs, lits) ==
    IF lits = <<>> THEN 0
    ELSE LET bodies == {rs[i].body : i \in {j \in DOMAIN rs :
                                              signature(rs[j].head) = signature(Head(lits))}}
         IN  1 + Max({0} \cup {derivation_steps(rs, body) : body \in bodies})
               + derivation_steps(rs, Tail(lits))

\* the search of sld::inner meets the depth bound: some call finds a goal that is not
\* empty at level maxd.  The search is walked as inner walks it, the builtin resolvent
\* first, then the resolving rules in order, the counter handed from child to child, and
\* it stops at a child that returns an error.
RECURSIVE bound_reached(_, _, _, _, _, _, _)
RECURSIVE bound_reached_below(_, _, _, _, _, _, _, _, _, _)
bound_reached_below(rs, g, maxd, level, grounded, lid, pending, rid, ctr, seed) ==
    IF pending # <<>> THEN
        \/ bound_reached(rs, Head(pending).resolvent, maxd, level + 1, grounded, ctr, seed)
        \/ \E maybe_tree \in {inner(rs, Head(pending).resolvent, maxd, level + 1, grounded,
                                     ctr, seed)} :
               /\ maybe_tree.tag \notin {"Err", "Panic"}
               /\ bound_reached_below(rs, g, maxd, level, grounded, lid, Tail(pending), rid,
                                      maybe_tree.counter, seed)
    ELSE
        \E item \in {next_item(rs, rid, lid, g, level, ctr, seed)} :
            /\ item.next < Len(rs)
            /\ \/ bound_reached(rs, item.cand.resolvent, maxd, level + 1, grounded,
                                 item.counter, seed)
               \/ \E maybe_tree \in {inner(rs, item.cand.resolvent, maxd, level + 1,
                                            grounded, item.counter, seed)} :
                      /\ maybe_tree.tag \notin {"Err", "Panic"}
                      /\ bound_reached_below(rs, g, maxd, level, grounded, lid, <<>>,
                                             item.next + 1, maybe_tree.counter, seed)

bound_reached(rs, g, maxd, level, grounded, ctr, seed) ==
    IF g = <<>> THEN FALSE
    ELSE IF level >= maxd THEN TRUE
    ELSE LET selected == select(g, grounded)
         IN  /\ selected.tag = "Some"
             /\ bound_reached_below(rs, g, maxd, level, grounded, selected.lid,
                                    builtin_resolves(selected.lid, selected.l, g, level),
                                    0, ctr, seed)

\* the run of the state met its depth bound
depth_bound_reached ==
    bound_reached(rules, goal_with_history(goal), maxdepth, 0,
                  check_grounded_variables(rules), 0, hashSeed)

\* the answers without positions, as tests::contains_ignoring_position compares them
answers_ignoring_position == {[i \in DOMAIN a |-> atom(a[i])] : a \in answers}

\* reach("a", n) for the four nodes that can be reached from a
reachable_from_a ==
    {<<[predicate |-> "reach", args |-> <<node("a"), node(n)>>]>> : n \in {"b", "c", "d", "e"}}

\* str is n times a followed by n times b, for some n >= 1
a_n_b_n(str) ==
    /\ Len(str) >= 2
    /\ Len(str) % 2 = 0
    /\ \A i \in 1..Len(str) : str[i] = (IF 2 * i <= Len(str) THEN "a" ELSE "b")

\* the run of the state is the splitting program on a ground goal a(s)
splitting_run == rules = string_concat_complex /\ maxdepth = SplitDepth

\* the 0-based index of the leftmost literal of g that select can pick, Len(g) if none
leftmost_selectable(g, grounded) ==
    LET ok == {i \in DOMAIN g : selectable(g[i], grounded)}
    IN  IF ok = {} THEN Len(g) ELSE (CHOOSE i \in ok : \A j \in ok : i <= j) - 1

\* the literals of a goal with history
literals_of(gh) == [i \in DOMAIN gh |-> gh[i].literal]

\* the body a resolvent edge appended: the renamed rule body, nothing for a builtin
edge_body(e) ==
    IF e.cid.tag = "Rule" THEN substitute_goal(rules[e.cid.rid + 1].body, e.renaming)
    ELSE <<>>

\* the root-to-leaf paths of the run's tree, as proofs flattens them
paths_of_run ==
    flatten_compose(0, ClauseIdQuery, EmptySubstitution, [v \in goal_variables(goal) |-> v],
                    result.tree, hashSeed)

\* the number of direct children proof_for_level expects for the clause of a path node
expected_children(applied) ==
    IF applied.tag = "Query" THEN Len(goal)
    ELSE IF applied.tag = "Rule" THEN Len(rules[applied.rid + 1].body)
    ELSE 0

\* the steps of a path (0-based) whose selected literal was introduced at a level
selected_at(nodes, level) ==
    {l \in 0..(Len(nodes) - 2) :
        nodes[l + 1].resolvent[nodes[l + 2].selected + 1].introduction = level}

\* every node of a proof
RECURSIVE proof_nodes(_)
proof_nodes(p) == {p} \cup UNION {proof_nodes(p.children[i]) : i \in DOMAIN p.children}

\* the proof nodes of the run, each with the variables of the clause it applies and their
\* fresh copies on the path, and the composed mgu of the path
proof_steps_of_run ==
    UNION {UNION {{[proof |-> proof_for_level(ps[k].nodes, ps[k].mgu, rules, level),
                    applied |-> ps[k].nodes[level + 1].applied,
                    renaming |-> ps[k].nodes[level + 1].renaming,
                    mgu |-> ps[k].mgu] :
                   level \in 0..(Len(ps[k].nodes) - 1)} :
                  k \in DOMAIN ps} :
           ps \in {paths_of_run}}

\* the literal a proof node establishes: the head of its rule under its valuation, or the
\* instance of the builtin it applied
proved_literal(p) ==
    IF p.clause.tag = "Rule" THEN substitute_literal(rules[p.clause.rid + 1].head, p.valuation)
    ELSE p.clause.head[1]

\* the literals a proof node needs: the body of its rule, or the goal, under its valuation
needed_literals(p) ==
    IF p.clause.tag = "Rule" THEN substitute_goal(rules[p.clause.rid + 1].body, p.valuation)
    ELSE IF p.clause.tag = "Query" THEN substitute_goal(goal, p.valuation)
    ELSE <<>>

\* the step of a path (0-based) at which the literal of an origin was selected
step_selecting(nodes, clause, body_index) ==
    CHOOSE l \in 0..(Len(nodes) - 2) :
        LET lit == nodes[l + 1].resolvent[nodes[l + 2].selected + 1]
        IN  lit.origin.clause = clause /\ lit.origin.body_index = body_index

\* the goals one resolution step away from g at a level: the selected literal resolved
\* with its builtin and with every rule of its signature (the fresh variables of a step
\* are numbered from the level and the rule, apart from those of every other step of a path)
children_of(g, level, lid) ==
    {cand.resolvent : cand \in
        {builtin_resolves(lid, g[lid + 1], g, level)[k] :
             k \in DOMAIN builtin_resolves(lid, g[lid + 1], g, level)}
        \cup UNION {{user_rule_resolves(rules, rid, lid, g[lid + 1], g, level,
                                          64 * (level + 1) + 8 * rid, hashSeed).found[k] :
                         k \in DOMAIN user_rule_resolves(rules, rid, lid, g[lid + 1], g, level,
                                          64 * (level + 1) + 8 * rid, hashSeed).found} :
                    rid \in {x \in 0..(Len(rules) - 1) :
                                signature(rules[x + 1].head) = signature(g[lid + 1].literal)}}}

\* some goal of the search space below g, at a level under the depth bound, has an unknown
\* literal that a left-to-right scan reaches before any literal it can select
RECURSIVE unknown_reached_from(_, _)
unknown_reached_from(g, level) ==
    IF g = <<>> \/ level >= maxdepth THEN FALSE
    ELSE \E grounded \in {check_grounded_variables(rules)} :
           \E first \in {leftmost_selectable(literals_of(g), grounded)} :
             IF \E i \in 1..(IF first = Len(g) THEN first ELSE first + 1) :
                    scan_reaches_unknown(literals_of(g), grounded, i)
             THEN TRUE
             ELSE IF first = Len(g) THEN FALSE
             ELSE \E child \in children_of(g, level, first) :
                      unknown_reached_from(child, level + 1)

-----------------------------------------------------------------------------
(* Properties *)

\* C1 (solution soundness): every answer of solutions(tree), for a tree sld returned,
\* is an instance of the goal under some substitution, and every literal of it is ground.
C1_SolutionSoundness ==
    pc = "extracted" =>
        \A g2 \in answers : is_instance(g2, goal) /\ goal_is_ground(g2)

\* C1 witness: a goal with a variable has been solved and has two answers
C1_Witness ==
    /\ pc = "extracted"
    /\ ~goal_is_ground(goal)
    /\ Cardinality(answers) >= 2

\* the goals the proofs project to
projected_goals == {substitute_goal(goal, proofList.proofs[i].valuation) :
                       i \in DOMAIN proofList.proofs}

\* C2 (proof/solution agreement): the goals obtained by applying each proof's valuation
\* to the original goal are, as a set, exactly the answers of solutions(tree).
C2_ProofSolutionAgreement ==
    pc = "proved" => proofList.ok /\ projected_goals = answers

\* C2 witness: proofs were extracted from a tree with two different answers
C2_Witness ==
    /\ pc = "proved"
    /\ proofList.ok
    /\ Len(proofList.proofs) >= 2
    /\ Cardinality(answers) >= 2

C4_Termination ==
    engine_ran =>
        /\ result.tag \in {"Err", "None", "Some"}
        /\ result.tag = "Some" => \A n \in subtrees(result.tree) : n.level <= maxdepth

\* C5 (unification soundness and idempotence): a successful unify(a, b) gives a
\* substitution that makes a and b equal and that applied twice equals applied once;
\* unify fails on different signatures and on two different constants at one position.
\* Checked on stand-alone calls and on every resolvent edge of the trees sld builds.
C5_UnificationSound ==
    /\ pc = "called" /\ lab.op = "unify" =>
          /\ lab.out.ok => unifies(lab.out.mgu, lab.a, lab.b) /\ idempotent(lab.out.mgu)
          /\ signature(lab.a) # signature(lab.b) => ~lab.out.ok
          /\ constants_clash(lab.a, lab.b) => ~lab.out.ok
    /\ pc = "solved" /\ result.tag = "Some" =>
          \A ne \in edges(result.tree) :
              LET selected == ne[1].goal[ne[2].lid + 1].literal
              IN  /\ unifies(ne[2].mgu, edge_head(ne[2]), selected)
                  /\ idempotent(ne[2].mgu)
                  /\ signature(edge_head(ne[2])) = signature(selected)
                  /\ ~constants_clash(edge_head(ne[2]), selected)

\* C5 witness: a unification that had to bind a variable through an earlier binding, and a
\* tree with a rule edge whose mgu is not empty
C5_Witness ==
    \/ /\ pc = "called" /\ lab.op = "unify"
       /\ lab.out.ok
       /\ Cardinality(DOMAIN lab.out.mgu) >= 2
       /\ \E t \in DOMAIN lab.out.mgu : lab.out.mgu[t].k = "C"
    \/ /\ pc = "solved" /\ result.tag = "Some"
       /\ \E ne \in edges(result.tree) : ne[2].cid.tag = "Rule" /\ DOMAIN ne[2].mgu # {}

\* C6 (renaming): the renamed clause is the clause under the renaming, the renaming maps
\* each variable of the clause to one RenamedVariable of its own, and no renamed variable
\* is a variable of the clause or of the goal the clause is applied to.
C6_RenamingFresh ==
    /\ pc = "called" /\ lab.op = "rename_with_sub" =>
          /\ lab.clause = substitute_clause(lab.c, lab.renaming)
          /\ DOMAIN lab.renaming = clause_variables(lab.c)
          /\ \A v \in DOMAIN lab.renaming :
                 lab.renaming[v].k = "R" /\ lab.renaming[v].in = <<v>>
          /\ \A v \in DOMAIN lab.renaming, w \in DOMAIN lab.renaming :
                 v # w => lab.renaming[v].id # lab.renaming[w].id
          /\ Range(lab.renaming) \cap clause_variables(lab.c) = {}
    /\ pc = "solved" /\ result.tag = "Some" =>
          \A ne \in edges(result.tree) :
              ne[2].cid.tag = "Rule" =>
                  LET cl == rules[ne[2].cid.rid + 1]
                      rho == ne[2].renaming
                  IN  /\ DOMAIN rho = clause_variables(cl)
                      /\ \A v \in DOMAIN rho : rho[v].k = "R" /\ rho[v].in = <<v>>
                      /\ \A v \in DOMAIN rho, w \in DOMAIN rho : v # w => rho[v].id # rho[w].id
                      /\ Range(rho) \cap clause_variables(cl) = {}
                      /\ Range(rho) \cap
                             UNION {literal_variables(ne[1].goal[i].literal) :
                                        i \in DOMAIN ne[1].goal} = {}

\* C6 witness: a clause with three variables was renamed, and a tree applies a rule to a
\* goal that already holds a renamed variable
C6_Witness ==
    \/ /\ pc = "called" /\ lab.op = "rename_with_sub"
       /\ Cardinality(DOMAIN lab.renaming) >= 3
    \/ /\ pc = "solved" /\ result.tag = "Some"
       /\ \E ne \in edges(result.tree) :
              /\ ne[2].cid.tag = "Rule"
              /\ \E i \in DOMAIN ne[1].goal :
                     \E v \in literal_variables(ne[1].goal[i].literal) :
                         v.k = "R" /\ v.in[1] \in DOMAIN ne[2].renaming

\* C7 (unknown predicate is an error): when the selection scan of the goal reaches a literal
\* whose name no builtin owns and whose signature the groundness map lacks, sld returns
\* Err with the message "unknown predicate", never Ok(None) or Ok(Some(tree)).
C7_UnknownPredicateIsErr ==
    pc = "solved" /\ maxdepth > 0 =>
        \A i \in DOMAIN goal :
            scan_reaches_unknown(goal, check_grounded_variables(rules), i) =>
                result.tag = "Err" /\ result.diagnostic.message = "unknown predicate"

\* C8 (error bubble-up): when a recursive inner call on a resolvent of the root returns Err
\* (the calls before it having returned Ok), sld returns that Err and no tree, also when an
\* earlier resolvent had given a subtree.
C8_ErrorBubblesUp ==
    pc = "solved" =>
        \A k \in DOMAIN root_candidates :
            first_failure_is_err(k) =>
                result.tag = "Err" /\ result.diagnostic = root_child(k).diagnostic

\* C8 witness: an earlier resolvent of the root gave a subtree, a later one's recursive call
\* returned an Err raised below its own goal's first selection, and sld returned Err
C8_Witness ==
    /\ pc = "solved"
    /\ result.tag = "Err"
    /\ \E k \in DOMAIN root_candidates :
           /\ first_failure_is_err(k)
           /\ \E j \in 1..(k - 1) : root_child(j).tag = "Some"
           /\ select(root_candidates[k].resolvent, check_grounded_variables(rules)).tag = "Some"

\* C9 (missing position degrades gracefully): when the unknown literal the scan reaches has
\* no position, sld still returns Err (the label omitted or spanning 0..0), it does not abort.
C9_MissingPositionStillErr ==
    pc = "solved" /\ maxdepth > 0 =>
        \A i \in DOMAIN goal :
            /\ scan_reaches_unknown(goal, check_grounded_variables(rules), i)
            /\ goal[i].position = None
            => /\ result.tag = "Err"
               /\ result.diagnostic.labels \in {<<>>, <<[start |-> 0, end |-> 0]>>}

\* C10 (select_builtin is three-valued): Match when a mode accepts the literal,
\* GroundnessMismatch when the name is a builtin's and no mode accepts it, NoMatch only when
\* no builtin has the name.
C10_SelectBuiltinThreeValued ==
    pc = "called" /\ lab.op = "select_builtin" =>
        LET accepted == \E i \in DOMAIN Builtins : builtin_select(Builtins[i], lab.lit)
            named == lab.lit.predicate \in builtin_names
        IN  select_builtin_outcome(lab.out) =
                IF accepted THEN "Match"
                ELSE IF named THEN "GroundnessMismatch"
                ELSE "NoMatch"

\* C11 as the spec states it (builtin mode selection is unambiguous): on every
\* string_concat/3 literal some mode accepts, exactly one of the three modes passes select.
C11_ExactlyOneModePasses ==
    pc = "called" /\ lab.op = "select_builtin" /\ is_string_concat3(lab.lit) =>
        (passing_modes(lab.lit) # {} => Cardinality(passing_modes(lab.lit)) = 1)

\* C11 amended: with exactly one variable argument exactly one mode passes select (the
\* third, first, second argument variable gives StringConcat1, 2, 3); with no variable
\* all three pass and the first in declaration order is dispatched; with two or three
\* variables none passes.
C11_OneModeDispatched ==
    pc = "called" /\ lab.op = "select_builtin" /\ is_string_concat3(lab.lit) =>
        LET vs == variable_positions(lab.lit)
            passing == passing_modes(lab.lit)
        IN  /\ vs = {3} => passing = {1} /\ lab.out = Some(StringConcat1)
            /\ vs = {1} => passing = {2} /\ lab.out = Some(StringConcat2)
            /\ vs = {2} => passing = {3} /\ lab.out = Some(StringConcat3)
            /\ vs = {} => passing = {1, 2, 3} /\ lab.out = Some(StringConcat1)
            /\ Cardinality(vs) >= 2 => passing = {} /\ lab.out = None

\* C11 witness: select_builtin was called on a string_concat literal of three constants
C11_Witness ==
    /\ pc = "called" /\ lab.op = "select_builtin" /\ is_string_concat3(lab.lit)
    /\ variable_positions(lab.lit) = {}
    /\ lab.out = Some(StringConcat1)

\* C12 (string_concat semantics): for string_concat(a, b, c) with at most one variable
\* argument a builtin resolvent exists iff some values of the variable make c = a ++ b,
\* and its mgu binds exactly the variable, to the value that makes c = a ++ b.
C12_StringConcatSemantics ==
    pc = "called" /\ lab.op = "builtin_resolves"
        /\ Cardinality(variable_positions(lab.lit)) <= 1 =>
        /\ lab.out # <<>> <=> concat_models(lab.lit) # {}
        /\ lab.out # <<>> =>
               LET mgu == lab.out[1].mgu
                   bound == substitute_literal(lab.lit, mgu)
               IN  /\ DOMAIN mgu = literal_variables(lab.lit)
                   /\ \A i \in 1..3 : bound.args[i].k = "C"
                   /\ bound.args[3].s = bound.args[1].s \o bound.args[2].s
                   /\ lab.out[1].resolvent = <<>>

\* C12 witness: the first argument was computed by stripping a suffix off the third
C12_Witness ==
    /\ pc = "called" /\ lab.op = "builtin_resolves"
    /\ lab.lit.args = <<X, d, cd>>
    /\ lab.out # <<>>
    /\ lab.out[1].mgu[X] = c

\* C13 (fresh ids under concurrency): in every interleaving of rename() and aux() calls each
\* call obtains an id no other call obtained, now or before, and the counter never decreases.
C13_FreshIdsUnderConcurrency ==
    pc = "threads" =>
        /\ \A i \in DOMAIN lab.log, j \in DOMAIN lab.log : i # j => lab.log[i].id # lab.log[j].id
        /\ \A i \in DOMAIN lab.log : lab.log[i].id >= lab.start
        /\ \A i \in DOMAIN lab.log : lab.log[i].after >= lab.log[i].id

\* C14 (counter overflow fails loudly): a call made when the counter is at its maximum
\* aborts, so no call obtains an id from that value on, and none obtains an id of the
\* range handed out before.
C14_OverflowFailsLoudly ==
    pc = "threads" =>
        \A i \in DOMAIN lab.log :
            /\ lab.log[i].id # CounterMod - 1
            /\ ~(lab.log[i].id < lab.start)

\* C15 (proof de-duplication): proofs keeps one proof per distinct projected goal, the first
\* in path-enumeration order, in that order; a second call on the same tree returns the same.
C15_ProofDeduplication ==
    pc = "proved" /\ proofList.ok =>
        LET all == all_proofs_of_run
            kept == proofList.proofs
            firsts == first_occurrences(all)
        IN  /\ \A i \in DOMAIN kept, j \in DOMAIN kept :
                   i # j => projection(kept[i]) # projection(kept[j])
            /\ Len(kept) = Cardinality(firsts)
            /\ \A k \in DOMAIN kept : kept[k] = all[kth(firsts, k)]
            /\ proofs(result.tree, rules, goal, hashSeed) = proofList

\* C15 witness: two different proofs projected to the same goal and one was dropped
C15_Witness ==
    /\ pc = "proved" /\ proofList.ok
    /\ Len(proofList.proofs) >= 1
    /\ \E i \in DOMAIN all_proofs_of_run, j \in DOMAIN all_proofs_of_run :
           /\ i < j
           /\ projection(all_proofs_of_run[i]) = projection(all_proofs_of_run[j])
           /\ all_proofs_of_run[i] # all_proofs_of_run[j]

\* C16 (format-string round trip): with every expansion variable bound to a constant,
\* resolving the lowered string_concat chain has one answer, and in it the final auxiliary
\* variable is the string obtained by putting the values into the format string.
C16_FormatStringRoundTrip ==
    pc = "called" /\ lab.op = "convert_format_string" =>
        LET ps == pieces(lab.s, 1, <<>>)
            vars_ == {ps[i] : i \in {j \in DOMAIN ps : ps[j].k # "C"}}
            last == Len(lab.literals)
        IN  /\ lab.term = lab.literals[last].args[3]
            /\ \A val \in [vars_ -> ExpansionValues] :
                   LET answers_ == resolved_chain(lab.literals, val, hashSeed)
                   IN  /\ Cardinality(answers_) = 1
                       /\ \A g \in answers_ :
                              g[last].args[3] = Constant(substituted_text(ps, val))

\* C16 witness: "A${v}B" was lowered; with v = "x" its chain resolves to "AxB"
C16_Witness ==
    /\ pc = "called" /\ lab.op = "convert_format_string"
    /\ lab.s = <<"A", "$", "{", "v", "}", "B">>
    /\ \E g \in resolved_chain(lab.literals, [vv \in {UserVariable(<<"v">>)} |-> <<"x">>], hashSeed) :
           g[Len(lab.literals)].args[3] = Constant(<<"A", "x", "B">>)

\* C17 (format-string lowering shape): the first literal is string_concat("", "", V0), then
\* one literal string_concat(V_k, x, V_k+1) per outside segment and per expansion in source
\* order, each starting from the previous literal's third argument, the auxiliary ids
\* strictly increasing (0, 1, 2, ... from a counter at 0), the replacement term being the
\* third argument of the last literal.
C17_FormatStringShape ==
    pc = "called" /\ lab.op = "convert_format_string" =>
        LET ps == pieces(lab.s, 1, <<>>)
            lits == lab.literals
        IN  /\ Len(lits) = 1 + Len(ps)
            /\ \A k \in DOMAIN lits :
                   /\ lits[k].predicate = "string_concat"
                   /\ Len(lits[k].args) = 3
                   /\ lits[k].args[3].k = "A"
            /\ lits[1].args[1] = Constant(<<>>) /\ lits[1].args[2] = Constant(<<>>)
            /\ \A k \in 2..Len(lits) :
                   /\ lits[k].args[1] = lits[k - 1].args[3]
                   /\ lits[k].args[2] = ps[k - 1]
                   /\ lits[k].args[3].id > lits[k - 1].args[3].id
            /\ lab.before = 0 => \A k \in DOMAIN lits : lits[k].args[3].id = k - 1
            /\ lab.term = lits[Len(lits)].args[3]


\* C18 (expression lowering): the clauses produced for a surface clause with body e have
\* the bodies lower(e), in order; lower of And is every body of its left operand followed by
\* every body of its right operand, left-major; of Or the bodies of the left then of the
\* right; of an operator application those of its inner expression; a clause without body
\* gives one clause with empty body; every clause has the lowered surface head.
C18_ExpressionLowering ==
    pc = "called" /\ lab.op = "from_modus_clause" =>
        /\ \A k \in DOMAIN lab.clauses : lab.clauses[k].head = head_into(lab.mc.head)
        /\ lab.mc.body = None => Len(lab.clauses) = 1 /\ lab.clauses[1].body = <<>>
        /\ lab.mc.body # None =>
               LET bodies == lower(lab.mc.body[1], lab.before).bodies
               IN  /\ Len(lab.clauses) = Len(bodies)
                   /\ \A k \in DOMAIN bodies : lab.clauses[k].body = bodies[k]

\* C18 witness: a conjunction whose operands are disjunctions gave four clauses whose
\* second and third bodies differ in the order of the claim
C18_Witness ==
    /\ pc = "called" /\ lab.op = "from_modus_clause"
    /\ lab.mc.body # None
    /\ lab.mc.body[1].tag = "And"
    /\ lab.mc.body[1].e1.tag = "Or" /\ lab.mc.body[1].e2.tag = "Or"
    /\ Len(lab.clauses) = 4
    /\ lab.clauses[2].body # lab.clauses[3].body

\* C19 (completeness on non-recursive programs over ground facts): for a program of
\* ground facts and non-recursive rules, with a depth bound no smaller than the longest
\* derivation of the goal, sld returns no error, and the answers of solutions are exactly
\* the ground instances of the goal whose literals are all consequences of the program,
\* shared variables taking one value (no tree when there is no such instance).
C19_CompletenessNonRecursive ==
    (pc \in {"solved", "extracted"}
        /\ ground_facts_and_rules(rules, goal)
        /\ maxdepth >= derivation_steps(rules, goal)) =>
        /\ result.tag \in {"Some", "None"}
        /\ result.tag = "None" => consequence_instances(rules, goal) = {}
        /\ pc = "extracted" =>
               /\ {[i \in DOMAIN a |-> atom(a[i])] : a \in answers}
                      = consequence_instances(rules, goal)
               /\ Cardinality(answers) = Cardinality(consequence_instances(rules, goal))

\* C19 witness: a conjunction sharing a variable, solved through a rule with a body, has
\* two answers, fewer than its second literal alone has instances
C19_Witness ==
    /\ pc = "extracted"
    /\ ground_facts_and_rules(rules, goal)
    /\ maxdepth >= derivation_steps(rules, goal)
    /\ Len(goal) = 2
    /\ literal_variables(goal[1]) \cap literal_variables(goal[2]) # {}
    /\ \E i \in DOMAIN rules : rules[i].head.predicate = goal[1].predicate /\ rules[i].body # <<>>
    /\ Cardinality(answers) = 2
    /\ Cardinality(consequence_instances(rules, <<goal[2]>>)) > 2

\* C20 (left-recursive reachability): for the reach program over the arcs a->b->c->d->e,
\* g->f->e, g->a, goal reach("a", X) and depth bound 15, the solutions are exactly
\* reach(a,b), reach(a,c), reach(a,d), reach(a,e), and the left recursion is cut by the
\* depth bound.
C20_LeftRecursionCutByDepthBound ==
    (pc = "extracted" /\ rules = simple_recursion /\ goal = reach_from("a")
        /\ maxdepth = ReachDepth) =>
        /\ answers_ignoring_position = reachable_from_a
        /\ depth_bound_reached

\* C20 amended: with depth bound 15 sld returns a tree whose solutions are exactly
\* reach(a,b), reach(a,c), reach(a,d), reach(a,e), every node reachable from a and no
\* other; the search ends before the depth bound is met, because the body of a rule is
\* appended to the goal and the arc literals are resolved between two unfoldings of the
\* left-recursive rule.  With depth bound 10 the bound is met and the solutions are the same.
C20_LeftRecursiveReachability ==
    (rules = simple_recursion /\ goal = reach_from("a")) =>
        /\ pc = "solved" => result.tag = "Some"
        /\ pc = "extracted" =>
               /\ answers_ignoring_position = reachable_from_a
               /\ Cardinality(answers) = 4
               /\ answers_ignoring_position = consequence_instances(rules, goal)
               /\ depth_bound_reached <=> maxdepth = TestDepth

\* C20 witness: the reach goal from a has been solved at depth bound 15 through the
\* left-recursive rule, and reach(a,e), three recursive steps away, is among the answers
C20_Witness ==
    /\ pc = "extracted"
    /\ rules = simple_recursion /\ goal = reach_from("a") /\ maxdepth = ReachDepth
    /\ \E i \in DOMAIN result.tree.resolvents :
           result.tree.resolvents[i].cid = ClauseIdRule(0)
    /\ \E a \in answers : a[1].args = <<node("a"), node("e")>>

\* C21 (recursion through builtin splits): for the program a("ab"). a(S) :-
\* string_concat("a", X, S), string_concat(Y, "b", X), a(Y). with depth bound 50, sld on
\* the ground goal a(s) returns a tree with exactly one answer, a(s), when s is a^n b^n
\* with n >= 1, and returns None for every other string.
C21_RecursionThroughBuiltinSplits ==
    splitting_run =>
        /\ pc = "solved" =>
               result.tag = (IF a_n_b_n(goal[1].args[1].s) THEN "Some" ELSE "None")
        /\ pc = "extracted" =>
               /\ a_n_b_n(goal[1].args[1].s)
               /\ answers = {goal}

\* C21 witness: a(aaabbb) has been solved, through three applications of the rule
C21_Witness ==
    /\ splitting_run
    /\ pc = "extracted"
    /\ goal[1].args[1].s = <<"a", "a", "a", "b", "b", "b">>
    /\ Cardinality(answers) = 1

\* C22 (selection rule): select picks the leftmost admissible literal of the goal, the
\* literals before it having been skipped for a groundness mismatch; a skipped literal is
\* never selected and never reported as an error, and when the scan skips every literal
\* the result is None.  In every tree sld returns, the resolvents of a node are keyed by
\* the leftmost admissible literal of its goal; goal a(X) against the fact a(X) gives None.
C22_SelectionRule ==
    /\ (pc = "called" /\ lab.op = "select") =>
           LET first == leftmost_selectable(lab.goal, lab.grounded)
               unknown == {i \in DOMAIN lab.goal :
                              scan_reaches_unknown(lab.goal, lab.grounded, i)}
           IN  /\ lab.out.tag = "Some" =>
                      /\ lab.out.lid = first
                      /\ lab.out.l.literal = lab.goal[first + 1]
                      /\ \A j \in 1..first : ~is_unknown(lab.goal[j], lab.grounded)
               /\ (first < Len(lab.goal) /\ unknown = {}) => lab.out.tag = "Some"
               /\ (first = Len(lab.goal) /\ unknown = {}) => lab.out.tag = "None"
               /\ lab.out.tag \in {"Err", "Panic"} => unknown # {}
    /\ (pc = "solved" /\ result.tag = "Some") =>
           \A ne \in edges(result.tree) :
               ne[2].lid = leftmost_selectable(literals_of(ne[1].goal),
                                               check_grounded_variables(rules))
    /\ (pc = "solved" /\ rules = simple_nongrounded /\ goal = <<Parsed(0, "a", <<X>>)>>) =>
           result.tag = "None"

\* C22 witness: select skipped a builtin literal and a user literal with groundness
\* mismatches and picked the third literal of the goal
C22_Witness ==
    /\ pc = "called" /\ lab.op = "select"
    /\ lab.out.tag = "Some" /\ lab.out.lid = 2
    /\ lab.goal[1].predicate = "string_concat"
    /\ lab.goal[2].predicate = "a"
    /\ signature(lab.goal[2]) \in DOMAIN lab.grounded

\* C23 (empty goal beats the depth bound): inner tests the empty goal before the depth
\* bound.  sld on the empty goal returns a leaf for every bound, 0 included; a non-empty
\* goal at a level at or above the bound gives None, whatever its literals are (an unknown
\* predicate raises nothing there); so in a returned tree every node at the bound is a
\* success leaf and no node lies beyond it.
C23_EmptyGoalBeatsDepthBound ==
    pc = "solved" =>
        /\ goal = <<>> => result = [tag |-> "Some", tree |-> Tree(<<>>, 0, <<>>)]
        /\ (goal # <<>> /\ maxdepth = 0) => result.tag = "None"
        /\ goal # <<>> =>
               \A level \in {maxdepth, maxdepth + 1} :
                   inner(rules, goal_with_history(goal), maxdepth, level,
                         check_grounded_variables(rules), 0, hashSeed).tag = "None"
        /\ inner(rules, <<>>, maxdepth, maxdepth, check_grounded_variables(rules), 0, hashSeed)
               = [tag |-> "Some", tree |-> Tree(<<>>, maxdepth, <<>>), counter |-> 0]
        /\ result.tag = "Some" =>
               \A n \in subtrees(result.tree) :
                   /\ n.level <= maxdepth
                   /\ n.level = maxdepth => (n.goal = <<>> /\ n.resolvents = <<>>)

\* C23 witness: a returned tree has a success leaf exactly at the depth bound
C23_Witness ==
    /\ pc = "solved" /\ result.tag = "Some" /\ maxdepth > 0
    /\ \E n \in subtrees(result.tree) : n.level = maxdepth /\ n.goal = <<>>

\* C24 (resolution step and its frame): along every edge of a returned tree the child goal
\* is the parent goal without the selected entry, followed by the body literals of the
\* applied clause in body order, tagged with introduction = parent level + 1 and origin =
\* (clause id, body index), the mgu applied to every literal; the literals not selected
\* keep their order, introduction and origin; the child has |parent| - 1 + |body| literals.
C24_ResolutionStepAndFrame ==
    (pc = "solved" /\ result.tag = "Some") =>
        \A ne \in edges(result.tree) :
            LET parent == ne[1].goal
                e == ne[2]
                child == e.tree.goal
                body == edge_body(e)
                kept == Len(parent) - 1
            IN  /\ e.lid \in 0..kept
                /\ Len(child) = kept + Len(body)
                /\ \A i \in 1..kept :
                       LET old == parent[IF i <= e.lid THEN i ELSE i + 1]
                       IN  /\ child[i].literal = substitute_literal(old.literal, e.mgu)
                           /\ child[i].introduction = old.introduction
                           /\ child[i].origin = old.origin
                /\ \A j \in DOMAIN body :
                       /\ child[kept + j].literal = substitute_literal(body[j], e.mgu)
                       /\ child[kept + j].introduction = ne[1].level + 1
                       /\ child[kept + j].origin = LiteralOrigin(e.cid, j - 1)

\* C24 witness: in one tree, a step selected a literal with kept literals on both sides
\* and appended a rule body, and the mgus of steps changed kept literals before and after
\* the selected one
C24_Witness ==
    /\ pc = "solved" /\ result.tag = "Some"
    /\ \E ne \in edges(result.tree) :
           /\ 0 < ne[2].lid
           /\ ne[2].lid + 1 < Len(ne[1].goal)
           /\ Len(edge_body(ne[2])) = 1
    /\ \E ne \in edges(result.tree) :
           \E i \in 1..ne[2].lid : ne[2].tree.goal[i].literal # ne[1].goal[i].literal
    /\ \E ne \in edges(result.tree) :
           \E i \in (ne[2].lid + 2)..Len(ne[1].goal) :
               ne[2].tree.goal[i - 1].literal # ne[1].goal[i].literal

\* C25 (proof reconstruction never trips its checks): for every tree sld returns and every
\* root-to-leaf path, the lookup path[l + 1] of every non-leaf step is in range and its
\* selected index lies inside the step's goal; at every level of the path the literals
\* selected along the path that were introduced there carry the body indices
\* 0 .. n-1, each once, where n is 0 for a Builtin step, |body| for a Rule step and |G|
\* for the Query step; so proofs completes without a failed assertion, unwrap or index.
C25_ProofChecksNeverFail ==
    /\ pc \in {"extracted", "proved"} =>
           \A ps \in {paths_of_run} : \A k \in DOMAIN ps :
               \A nodes \in {ps[k].nodes} :
                   /\ \A l \in 0..(Len(nodes) - 1) :
                          nodes[l + 1].resolvent # <<>> =>
                              /\ l + 2 <= Len(nodes)
                              /\ nodes[l + 2].selected < Len(nodes[l + 1].resolvent)
                   /\ nodes[Len(nodes)].resolvent = <<>>
                   /\ \A level \in 0..(Len(nodes) - 1) :
                          LET hits == selected_at(nodes, level)
                              index(l) == nodes[l + 1].resolvent[nodes[l + 2].selected + 1]
                                              .origin.body_index
                              count == expected_children(nodes[level + 1].applied)
                          IN  /\ {index(l) : l \in hits} = 0..(count - 1)
                              /\ Cardinality(hits) = count
                   /\ proof_for_level(nodes, ps[k].mgu, rules, 0).ok
    /\ pc = "proved" => proofList.ok

\* C25 witness: proofs were reconstructed from a tree with a path that has a Builtin
\* step, a Rule step with a body and a Query step over several goal literals
C25_Witness ==
    /\ pc = "proved" /\ proofList.ok /\ Len(goal) > 1
    /\ \E ps \in {paths_of_run} : \E k \in DOMAIN ps :
           /\ \E l \in DOMAIN ps[k].nodes : ps[k].nodes[l].applied.tag = "Builtin"
           /\ \E l \in DOMAIN ps[k].nodes :
                  /\ ps[k].nodes[l].applied.tag = "Rule"
                  /\ expected_children(ps[k].nodes[l].applied) > 0

\* C26 (proof valuation domain): every Proof node proofs returns is the proof of one level
\* of one path; its valuation's keys are the variables of the applied clause as written
\* (of rule R[rid] for Rule(rid), of the goal for Query, none for Builtin), never a
\* RenamedVariable, and each key maps to the value of its fresh copy (for Query, of the
\* variable itself) under the composed mgu of the path.
C26_ProofValuationDomain ==
    (pc = "proved" /\ proofList.ok) =>
        \A steps \in {proof_steps_of_run} :
            /\ \A i \in DOMAIN proofList.proofs :
                   proof_nodes(proofList.proofs[i]) \subseteq {st.proof : st \in steps}
            /\ \A st \in steps :
                   LET val == st.proof.valuation
                       original == IF st.applied.tag = "Rule"
                                       THEN clause_variables(rules[st.applied.rid + 1])
                                   ELSE IF st.applied.tag = "Query" THEN goal_variables(goal)
                                   ELSE {}
                   IN  /\ st.proof.clause = st.applied
                       /\ DOMAIN val = original
                       /\ \A v \in DOMAIN val :
                              /\ v.k # "R"
                              /\ st.applied.tag = "Rule" =>
                                     /\ st.renaming[v].k = "R" /\ st.renaming[v].in = <<v>>
                                     /\ val[v] = substitute_term(st.renaming[v], st.mgu)
                              /\ st.applied.tag = "Query" =>
                                     val[v] = substitute_term(v, st.mgu)

\* C26 witness: a proof has a Rule node whose valuation binds a rule variable to a
\* constant, below a Query node over a goal variable, and a Builtin node
C26_Witness ==
    /\ pc = "proved" /\ proofList.ok /\ goal_variables(goal) # {}
    /\ \E i \in DOMAIN proofList.proofs :
           /\ \E p \in proof_nodes(proofList.proofs[i]) :
                  /\ p.clause.tag = "Rule"
                  /\ \E v \in DOMAIN p.valuation : p.valuation[v].k = "C"
           /\ \E p \in proof_nodes(proofList.proofs[i]) :
                  p.clause.tag = "Builtin" /\ p.valuation = EmptySubstitution

\* C27 (proof child order): in every Proof node, children[i] is the proof of body literal i
\* of the applied rule (of goal literal i for the Query node): it has as many children as
\* the body has literals, and the literal child i establishes is body literal i under the
\* node's valuation, whatever the order in which the engine selected the literals.
C27_ProofChildOrder ==
    (pc = "proved" /\ proofList.ok) =>
        \A i \in DOMAIN proofList.proofs :
            \A p \in proof_nodes(proofList.proofs[i]) :
                /\ Len(p.children) = Len(needed_literals(p))
                /\ \A k \in DOMAIN p.children :
                       /\ p.children[k].clause.tag # "Query"
                       /\ eq_ignoring_position(proved_literal(p.children[k]),
                                               needed_literals(p)[k])

\* C27 witness: proofs were built for a goal whose first literal was selected after its
\* second and third, and whose literals have different predicates
C27_Witness ==
    /\ pc = "proved" /\ proofList.ok /\ Len(proofList.proofs) > 0
    /\ Len(goal) >= 3 /\ goal[1].predicate # goal[2].predicate
    /\ \E ps \in {paths_of_run} : \E k \in DOMAIN ps :
           /\ step_selecting(ps[k].nodes, ClauseIdQuery, 0)
                  > step_selecting(ps[k].nodes, ClauseIdQuery, 1)
           /\ step_selecting(ps[k].nodes, ClauseIdQuery, 0)
                  > step_selecting(ps[k].nodes, ClauseIdQuery, 2)

\* C28 (tree shape invariant): in every tree sld returns, a node has no resolvent exactly
\* when its goal is empty, so a node with a non-empty goal has at least one child; the
\* resolvents of one node all carry the same selected literal index and different clause
\* ids; every root-to-leaf path ends in a node with the empty goal.
C28_TreeShape ==
    (engine_ran /\ result.tag = "Some") =>
        /\ \A n \in subtrees(result.tree) :
               /\ (n.resolvents = <<>>) <=> (n.goal = <<>>)
               /\ n.goal # <<>> => Len(n.resolvents) >= 1
               /\ \A i \in DOMAIN n.resolvents, j \in DOMAIN n.resolvents :
                      /\ n.resolvents[i].lid = n.resolvents[j].lid
                      /\ i # j => n.resolvents[i].cid # n.resolvents[j].cid
        /\ \A ps \in {paths_of_run} :
               /\ Len(ps) >= 1
               /\ \A k \in DOMAIN ps : ps[k].nodes[Len(ps[k].nodes)].resolvent = <<>>

\* C28 witness: a returned tree has a node with several resolvents below the root and
\* leaves at different levels
C28_Witness ==
    /\ pc = "solved" /\ result.tag = "Some"
    /\ \E n \in subtrees(result.tree) : n.level > 0 /\ Len(n.resolvents) >= 2
    /\ \E n1 \in subtrees(result.tree), n2 \in subtrees(result.tree) :
           n1.goal = <<>> /\ n2.goal = <<>> /\ n1.level # n2.level

\* C29 (history invariant): in every tree sld returns the root has level 0 and a child's
\* level is its parent's plus one; in a node at level n every literal has introduction
\* <= n; the literals with introduction n > 0 are the body literals of the clause applied
\* on the edge entering the node, with origin (that clause, 0), (that clause, 1), ... in
\* order; the literals with introduction 0 have origin (Query, i), i being the position in
\* the original goal of the literal they are an instance of.
C29_HistoryInvariant ==
    (engine_ran /\ result.tag = "Some") =>
        /\ result.tree.level = 0
        /\ \A i \in DOMAIN result.tree.goal :
               /\ result.tree.goal[i].literal = goal[i]
               /\ result.tree.goal[i].introduction = 0
               /\ result.tree.goal[i].origin = LiteralOrigin(ClauseIdQuery, i - 1)
        /\ \A n \in subtrees(result.tree) :
               \A i \in DOMAIN n.goal :
                   /\ n.goal[i].introduction \in 0..n.level
                   /\ n.goal[i].introduction = 0 =>
                          /\ n.goal[i].origin.clause = ClauseIdQuery
                          /\ n.goal[i].origin.body_index \in 0..(Len(goal) - 1)
                          /\ n.goal[i].literal.predicate
                                 = goal[n.goal[i].origin.body_index + 1].predicate
                          /\ n.goal[i].literal.position
                                 = goal[n.goal[i].origin.body_index + 1].position
        /\ \A ne \in edges(result.tree) :
               LET child == ne[2].tree
                   fresh == SelectSeq(child.goal, LAMBDA x : x.introduction = child.level)
                   body == edge_body(ne[2])
               IN  /\ child.level = ne[1].level + 1
                   /\ Len(fresh) = Len(body)
                   /\ \A j \in DOMAIN fresh :
                          /\ fresh[j].origin = LiteralOrigin(ne[2].cid, j - 1)
                          /\ fresh[j].literal = substitute_literal(body[j], ne[2].mgu)

\* C29 witness: a node at level 2 or deeper holds a literal of the original goal that was
\* not its first, a literal introduced at an intermediate level and a literal introduced
\* on the entering edge
C29_Witness ==
    /\ pc = "solved" /\ result.tag = "Some"
    /\ \E ne \in edges(result.tree) :
           LET child == ne[2].tree
           IN  /\ child.level >= 2
               /\ Len(edge_body(ne[2])) >= 1
               /\ \E i \in DOMAIN child.goal :
                      child.goal[i].introduction = 0 /\ child.goal[i].origin.body_index > 0
               /\ \E i \in DOMAIN child.goal :
                      child.goal[i].introduction \in 1..(child.level - 1)
               /\ \E i \in DOMAIN child.goal : child.goal[i].introduction = child.level

\* C30 (the unknown-predicate error depends on the literal's position): an unknown literal
\* to the right of an admissible one raises nothing at that node, the admissible literal
\* being selected; sld returns Err exactly when, somewhere in the search space under the
\* depth bound, a scan reaches an unknown literal before an admissible one, and Ok (a tree
\* or None) otherwise.
C30_UnknownPredicateByPosition ==
    /\ (pc = "called" /\ lab.op = "select") =>
           \A first \in {leftmost_selectable(lab.goal, lab.grounded)} :
               (/\ first < Len(lab.goal)
                /\ \A j \in 1..first : ~is_unknown(lab.goal[j], lab.grounded))
               => lab.out.tag = "Some" /\ lab.out.lid = first
    /\ pc = "solved" =>
           IF unknown_reached_from(goal_with_history(goal), 0)
           THEN result.tag = "Err" /\ result.diagnostic.message = "unknown predicate"
           ELSE result.tag \in {"None", "Some"}

\* the claim of C30 for the runs in which every unknown literal reached has a position
C30_WithPositions ==
    /\ (pc = "solved" /\ result.tag # "Panic") => C30_UnknownPredicateByPosition
    /\ (pc = "solved" /\ result.tag = "Panic") =>
           unknown_reached_from(goal_with_history(goal), 0)


====
